---------------------------- MODULE Spec2Model ----------------------------
(***************************************************************************)
(* IntelliGuard: the background sampling loop of BackendController         *)
(* (src/main.py), the monitors it drives (src/backend/monitors), the       *)
(* battery health log and its prediction, the stability score and the      *)
(* daily story (src/backend/analytics), the daily sample store             *)
(* (src/backend/data_store.py) and the downloads cleaner                   *)
(* (src/backend/cleaners/downloads_cleaner.py).                            *)
(*                                                                         *)
(* Conventions.                                                            *)
(*  - Python's None is the empty sequence <<>>, a present value v is <<v>>. *)
(*  - percentages are integers; a value in KB (bytes / 1024) is kept as    *)
(*    its number of bytes, i.e. in units of 1/1024 KB: the division by a   *)
(*    power of two is exact and order preserving.                          *)
(*  - wear % is kept in thousandths of a percent (round(x, 3)).            *)
(*  - time.time() is the integer variable clock (seconds); it advances     *)
(*    while the worker sleeps.                                             *)
(*  - a date string "YYYY-MM-DD" is the triple <<Y, M, D>> of its zero     *)
(*    padded fields, compared field by field as the string is compared     *)
(*    character by character.                                              *)
(***************************************************************************)
EXTENDS Integers, Sequences, FiniteSets, TLC

\* ------------------------------------------------------------------ bounds
\* ticks explored by the monitor specification
MonTicks == 6
\* ticks explored by the concurrent controller specification
MaxTicks == 2
\* ticks explored by the scheduling specification
SchedTicks == 4
\* reader threads calling get_latest
NumReaders == 1
\* append_daily_entry calls explored by the battery log specification
MaxAppends == 3
\* elements of the battery log file given to predict
MaxLogLen == 3
\* samples of a history given to score_process
MaxSamples == 4
\* samples in the daily sample file read for the daily story
MaxStorySamples == 3
\* names in the Downloads directory
MaxFiles == 2
MaxExtraApps == 2
SourceTicks == 2
ReadTicks == 2
AlertTicks == 5
ScanTicks == 2
WriteTicks == 2
\* capacity of every bounded history (config.HISTORY_LEN is 60; the model
\* runs the same code with a small capacity so that eviction happens)
HISTORY_LEN == 3

\* ------------------------------------------------------- program constants
CPU_THRESHOLD == 85
RAM_THRESHOLD == 85
CHECK_INTERVAL == 5
CONSECUTIVE_LIMIT == 5
CLEANUP_HOUR == 9
CLEANUP_MINUTE == 0
CLEANUP_PAUSE == 61
TOP_N == 3
SINGLE_RULE_DAYS == 15
TOP_APPS == 5
MIN_POINTS == 3

None == <<>>
Some(v) == <<v>>
Get(o) == o[1]

VARIABLES
  \* SystemMonitor
  cpu_history, ram_history, cpu_hits, ram_hits,
  peak_cpu, peak_cpu_time, peak_ram, peak_ram_time,
  \* NetworkMonitor
  last_total_recv, last_total_sent, history_down, history_up,
  peak_download, peak_download_time, peak_upload, peak_upload_time,
  \* DiskMonitor
  disk_history,
  \* BackendController
  lock, latest, running, proc_history,
  \* _worker_loop: position and locals
  pc, sys_info, bat_info, disk_info, net_info, now_ts, merged, last_daily_run,
  \* readers (get_latest) and the thread calling stop()
  rd_pc, rd_ret, stop_pc,
  \* persistence: battery_health_log.json, daily_samples_<date>.json
  health_log, daily_files,
  \* environment: wall clock, cumulative OS network counters, what the
  \* operating system reports during the current tick
  clock, net_counters, host,
  \* observation (history variables, not program state)
  ticks, pushed, proc_pushed, fired, published, rd_seen,
  cleanup_calls, failed_ticks, appends,
  \* the Downloads directory the cleaner works on
  downloads,
  \* the thread of the user interface: the query it made last and what it got
  query, result,
  \* self.cleanup_days of the controller
  self_cleanup_days,
  \* a get_stability_scores call in progress on a reader thread, and the
  \* content a file write in progress has still to put into its file
  scan, pending

sysmon_vars == <<cpu_history, ram_history, cpu_hits, ram_hits,
                 peak_cpu, peak_cpu_time, peak_ram, peak_ram_time>>
netmon_vars == <<last_total_recv, last_total_sent, history_down, history_up,
                 peak_download, peak_download_time, peak_upload,
                 peak_upload_time, net_counters>>
local_vars == <<sys_info, bat_info, disk_info, net_info, now_ts, merged>>
reader_vars == <<rd_pc, rd_ret, rd_seen>>
vars == <<sysmon_vars, netmon_vars, disk_history, lock, latest, running,
          proc_history, pc, local_vars, last_daily_run, reader_vars, stop_pc,
          health_log, daily_files, clock, host, ticks, pushed, proc_pushed,
          fired, published, cleanup_calls, failed_ticks, appends,
          downloads, query, result, self_cleanup_days, scan, pending>>


\* ----------------------------------------------------------------- helpers
Last(s) == s[Len(s)]

\* the last n entries of s, in order
LastN(s, n) == IF Len(s) <= n THEN s ELSE SubSeq(s, Len(s) - n + 1, Len(s))

RECURSIVE SeqMax(_)
SeqMax(s) == IF Len(s) = 1 THEN s[1]
             ELSE LET m == SeqMax(Tail(s)) IN IF s[1] > m THEN s[1] ELSE m

\* sum(s)
RECURSIVE Sum(_)
Sum(s) == IF s = <<>> THEN 0 ELSE s[1] + Sum(Tail(s))

\* the values of a history of (timestamp, value) pairs
Values(h) == [i \in 1..Len(h) |-> h[i][2]]

\* Python truthiness of an optional number: None and 0 are false
Truthy(o) == o # None /\ Get(o) # 0

\* no get_stability_scores call is in progress
NoScan == [pc |-> "idle"]

\* round(n / d) to the nearest integer, ties to even (Python's round), d > 0
RoundDiv(n, d) ==
  LET q == n \div d
      r == n % d
  IN  IF 2 * r < d THEN q
      ELSE IF 2 * r > d THEN q + 1
      ELSE IF q % 2 = 0 THEN q ELSE q + 1

\* ---------------------------------------------------- bounded histories
\* collections.deque(maxlen = HISTORY_LEN).append(x)
DequeAppendNoEvict(dq, x) == dq \o <<x>>
DequeAppend(dq, x) ==
  IF Len(dq) >= HISTORY_LEN THEN Tail(dq) \o <<x>> ELSE dq \o <<x>>

\* hist_list.append(entry); if len(hist_list) > HISTORY_LEN: hist_list.pop(0)
ListAppendCapped(l, x) ==
  LET a == l \o <<x>> IN IF Len(a) > HISTORY_LEN THEN Tail(a) ELSE a

\* if value > self.peak: self.peak = value; self.peak_time = ts
NewPeakLastValue(peak, v) == v
NewPeak(peak, v) == IF v > peak THEN v ELSE peak
NewPeakTimeAtOrAbove(peak, t, v, ts) == IF v >= peak THEN Some(ts) ELSE t
NewPeakTime(peak, t, v, ts) == IF v > peak THEN Some(ts) ELSE t

\* ------------------------------------------------- threshold alert counter
\* if reading > threshold: hits += 1  else: hits = 0
NextHitsNeverReset(hits, reading, threshold) ==
  IF reading > threshold THEN hits + 1 ELSE hits
NextHitsAtOrAbove(hits, reading, threshold) ==
  IF reading >= threshold THEN hits + 1 ELSE 0
NextHits(hits, reading, threshold) ==
  IF reading > threshold THEN hits + 1 ELSE 0

\* if self.hits >= config.CONSECUTIVE_LIMIT: alert
FiresOnce(hits) == hits = CONSECUTIVE_LIMIT
Fires(hits) == hits >= CONSECUTIVE_LIMIT

\* ------------------------------------------------------------ SystemMonitor
\* procs.sort(key = cpu_percent or 0, reverse = True): a stable sort
RECURSIVE InsertByCpu(_, _)
InsertByCpu(p, s) ==
  IF s = <<>> THEN <<p>>
  ELSE IF s[1].cpu_percent >= p.cpu_percent
       THEN <<s[1]>> \o InsertByCpu(p, Tail(s))
       ELSE <<p>> \o s

RECURSIVE SortByCpuDesc(_)
SortByCpuDesc(s) ==
  IF s = <<>> THEN <<>>
  ELSE LET rest == SortByCpuDesc(SubSeq(s, 1, Len(s) - 1))
       IN  InsertByCpu(Last(s), rest)

\* procs_cpu[:3]
TopCpu(procs) == LET s == SortByCpuDesc(procs) IN SubSeq(s, 1, IF Len(s) < TOP_N THEN Len(s) ELSE TOP_N)

\* SystemMonitor.sample(): the state it leaves behind
SysSample(cpu, ram) ==
  /\ cpu_history' = DequeAppend(cpu_history, <<clock, cpu>>)
  /\ ram_history' = DequeAppend(ram_history, <<clock, ram>>)
  /\ peak_cpu' = NewPeak(peak_cpu, cpu)
  /\ peak_cpu_time' = NewPeakTime(peak_cpu, peak_cpu_time, cpu, clock)
  /\ peak_ram' = NewPeak(peak_ram, ram)
  /\ peak_ram_time' = NewPeakTime(peak_ram, peak_ram_time, ram, clock)
  /\ cpu_hits' = NextHits(cpu_hits, cpu, CPU_THRESHOLD)
  /\ ram_hits' = NextHits(ram_hits, ram, RAM_THRESHOLD)
  /\ fired' = [cpu |-> Fires(cpu_hits'), ram |-> Fires(ram_hits')]
  /\ pushed' = [pushed EXCEPT !.cpu = @ \o <<<<clock, cpu>>>>,
                              !.ram = @ \o <<<<clock, ram>>>>]

\* SystemMonitor.sample(): the dictionary it returns
SysInfo(cpu, ram, procs) ==
  [cpu |-> cpu, ram |-> ram, top_cpu |-> TopCpu(procs),
   cpu_hits |-> cpu_hits', ram_hits |-> ram_hits',
   cpu_history |-> cpu_history', ram_history |-> ram_history',
   timestamp |-> clock,
   peak_cpu |-> peak_cpu', peak_cpu_time |-> peak_cpu_time',
   peak_ram |-> peak_ram', peak_ram_time |-> peak_ram_time',
   tick |-> ticks]

\* ----------------------------------------------------------- NetworkMonitor
\* the keys of the dictionary NetworkMonitor.sample() returns
NetInfo(down, up) ==
  [down |-> RoundDiv(down * 100, 1024), up |-> RoundDiv(up * 100, 1024),
   history_down |-> history_down', history_up |-> history_up',
   peak_download |-> RoundDiv(peak_download' * 100, 1024),
   peak_download_time |-> peak_download_time',
   peak_upload |-> RoundDiv(peak_upload' * 100, 1024),
   peak_upload_time |-> peak_upload_time',
   timestamp |-> clock, tick |-> ticks]

\* NetworkMonitor.sample() after drecv / dsent more bytes went through the
\* interfaces: the first call only records the counters
NetSample(drecv, dsent) ==
  LET recv == net_counters.recv + drecv
      sent == net_counters.sent + dsent
  IN
  /\ net_counters' = [recv |-> recv, sent |-> sent]
  /\ last_total_recv' = Some(recv)
  /\ last_total_sent' = Some(sent)
  /\ IF last_total_recv = None
     THEN /\ UNCHANGED <<history_down, history_up, peak_download,
                         peak_download_time, peak_upload, peak_upload_time>>
          /\ net_info' = Some(NetInfo(0, 0))
          /\ pushed' = pushed
     ELSE LET down_kb == recv - Get(last_total_recv)
              up_kb == sent - Get(last_total_sent)
          IN  /\ history_down' = DequeAppend(history_down, <<clock, down_kb>>)
              /\ history_up' = DequeAppend(history_up, <<clock, up_kb>>)
              /\ peak_download' = NewPeak(peak_download, down_kb)
              /\ peak_download_time' =
                   NewPeakTime(peak_download, peak_download_time, down_kb, clock)
              /\ peak_upload' = NewPeak(peak_upload, up_kb)
              /\ peak_upload_time' =
                   NewPeakTime(peak_upload, peak_upload_time, up_kb, clock)
              /\ net_info' = Some(NetInfo(down_kb, up_kb))
              /\ pushed' = [pushed EXCEPT
                              !.down = @ \o <<<<clock, down_kb>>>>,
                              !.up = @ \o <<<<clock, up_kb>>>>]

\* -------------------------------------------------------------- DiskMonitor
\* percent_total = used_bytes / total_bytes * 100 if total_bytes > 0 else 0.0
PercentTotal(used, total) == IF total > 0 THEN (used * 100) \div total ELSE 0

\* DiskMonitor.sample()
DiskSample(used, total) ==
  LET percent_total == PercentTotal(used, total) IN
  /\ disk_history' = DequeAppend(disk_history, <<clock, percent_total>>)
  /\ disk_info' = Some([total |-> [percent |-> percent_total],
                        history |-> disk_history',
                        timestamp |-> clock, tick |-> ticks])
  /\ pushed' = [pushed EXCEPT !.disk = @ \o <<<<clock, percent_total>>>>]

\* ----------------------------------------------------------- BatteryMonitor
\* BatteryMonitor.sample(): b is what psutil and the capacity report give
BatInfo(b) ==
  [present |-> b.present,
   percent |-> IF b.present THEN b.percent ELSE None,
   design_capacity_mwh |-> IF Truthy(b.design) THEN b.design ELSE None,
   full_charge_capacity_mwh |-> IF Truthy(b.full) THEN b.full ELSE None,
   cycle_count |-> None, voltage_mv |-> None,
   timestamp |-> clock, tick |-> ticks]


\* ------------------------------------------------------------ wall clock
\* datetime.datetime.now(): the clock starts at 2026-01-30 00:00:00
DayOf(t) == t \div (24 * 60 * 60)
HourOf(t) == (t \div (60 * 60)) % 24
MinuteOf(t) == (t \div 60) % 60

\* date.strftime("%Y-%m-%d") of day n of the model's calendar window
DateStr(n) == IF n < 2 THEN <<2026, 1, 30 + n>> ELSE <<2026, 2, n - 1>>
Today(t) == DateStr(DayOf(t))

\* a < b for two date strings
DateLess(a, b) ==
  \/ a[1] < b[1]
  \/ a[1] = b[1] /\ a[2] < b[2]
  \/ a[1] = b[1] /\ a[2] = b[2] /\ a[3] < b[3]

\* --------------------------------------------------------- BatteryPredictor
\* round((1.0 - full / design) * 100.0, 3), in thousandths of a percent
WearOverFull(design, full) == RoundDiv(100000 * (design - full), full)
Wear(design, full) == RoundDiv(100000 * (design - full), design)

\* the entry append_daily_entry builds
Entry(date_str, design, full, cycle, volt) ==
  [date |-> date_str, design_mwh |-> design, full_mwh |-> full,
   wear_pct |-> IF Truthy(design) /\ Truthy(full) /\ Get(design) > 0
                THEN Some(Wear(Get(design), Get(full))) ELSE None,
   cycle_count |-> cycle, voltage_mv |-> volt]

\* existing.update(entry) on the first entry of that date, else logs.append
UpsertAppendOnly(logs, entry) == Append(logs, entry)
Upsert(logs, entry) ==
  LET same == {i \in 1..Len(logs) : logs[i].date = entry.date} IN
  IF same # {}
  THEN [logs EXCEPT ![CHOOSE i \in same : \A j \in same : i <= j] = entry]
  ELSE Append(logs, entry)

\* logs.sort(key = date): a stable ascending sort
RECURSIVE InsertByDate(_, _)
InsertByDate(e, s) ==
  IF s = <<>> THEN <<e>>
  ELSE IF DateLess(e.date, s[1].date) THEN <<e>> \o s
       ELSE <<s[1]>> \o InsertByDate(e, Tail(s))

RECURSIVE SortByDate(_)
SortByDate(s) ==
  IF s = <<>> THEN <<>>
  ELSE InsertByDate(Last(s), SortByDate(SubSeq(s, 1, Len(s) - 1)))

\* BatteryPredictor.append_daily_entry: load, upsert, sort, save
AppendDailyEntry(date_str, design, full, cycle, volt) ==
  LET entry == Entry(date_str, design, full, cycle, volt) IN
  /\ health_log' = SortByDate(Upsert(health_log, entry))
  /\ appends' = Append(appends, entry)

\* ------------------------------------------------- BatteryPredictor.predict
\* An element of the log that is not an object (a number, a string): e.get
\* raises AttributeError on it.
NotAnObject == [scalar |-> 7]
IsObject(e) == "date" \in DOMAIN e

\* datetime.datetime.strptime(date, "%Y-%m-%d") succeeds
IsLeap(y) == (y % 4 = 0 /\ y % 100 # 0) \/ y % 400 = 0
DaysInMonth(y, m) ==
  IF m = 2 THEN (IF IsLeap(y) THEN 29 ELSE 28)
  ELSE IF m \in {4, 6, 9, 11} THEN 30 ELSE 31
ParsesAsDate(d) ==
  /\ d # None
  /\ d[1] >= 1 /\ d[2] \in 1..12 /\ d[3] >= 1 /\ d[3] <= DaysInMonth(d[1], d[2])

\* the day number of a parsed date (date.toordinal)
RECURSIVE DaysBeforeMonth(_, _)
DaysBeforeMonth(y, m) ==
  IF m = 1 THEN 0 ELSE DaysBeforeMonth(y, m - 1) + DaysInMonth(y, m - 1)
DayNumber(d) ==
  365 * (d[1] - 1) + (d[1] - 1) \div 4 - (d[1] - 1) \div 100
  + (d[1] - 1) \div 400 + DaysBeforeMonth(d[1], d[2]) + d[3]

\* (datetime.datetime.now() - first_date).days
DaysSince(first_date) ==
  DayOf(clock) + DayNumber(DateStr(0)) - DayNumber(first_date)

\* e.get("wear_pct") is not None and e.get("design_mwh")
Qualifies(e) == e.wear_pct # None /\ Truthy(e.design_mwh)
Parses(e) == ParsesAsDate(e.date)

\* notes: which of the four results it is, and for "need" the two counts
Notes(kind, found) == [kind |-> kind, required |-> MIN_POINTS, found |-> found]

\* the four numeric fields absent, a note and the unfiltered log (fit_nan
\* and health_exact, the unrounded projected health as a fraction, are
\* observations and no fields of the dictionary)
NoPredictionFiltered(notes, logs) ==
  [weekly_degradation_percent |-> None, projected_health_percent |-> None,
   health_score |-> None, trend_slope_wear_per_day |-> None,
   fit_nan |-> FALSE, health_exact |-> None, notes |-> notes,
   entries |-> SelectSeq(logs, Qualifies)]
NoPrediction(notes, logs) ==
  [weekly_degradation_percent |-> None, projected_health_percent |-> None,
   health_score |-> None, trend_slope_wear_per_day |-> None,
   fit_nan |-> FALSE, health_exact |-> None, notes |-> notes,
   entries |-> logs]

\* max(0.0, min(100.0, v)) of the fraction v = num / den percent, den > 0,
\* as the numerator over den
ClampPercentNoFloor(num, den) == IF num > 100 * den THEN 100 * den ELSE num
ClampPercent(num, den) ==
  IF num > 100 * den THEN 100 * den ELSE IF num < 0 THEN 0 ELSE num

\* The least-squares line through (x[i], y[i]), y in thousandths of a percent:
\* slope = S / denom with S = n*sxy - sx*sy and denom = n*sxx - sx*sx, and
\* projected_wear = slope * (elapsed + months * 30.4375) + intercept
\*                = wear_num / wear_den thousandths of a percent (30.4375 is
\* 487/16).  The health is 100 - projected_wear/1000 percent, clamped.
Projection(x, y, months, elapsed, logs) ==
  LET n == Len(x)
      sx == Sum(x)
      sy == Sum(y)
      sxy == Sum([i \in 1..n |-> x[i] * y[i]])
      sxx == Sum([i \in 1..n |-> x[i] * x[i]])
      denom == n * sxx - sx * sx
      S == n * sxy - sx * sy
      wear_den == 16 * n * denom
      wear_num == S * (16 * elapsed + 487 * months) * n
                  + 16 * (sy * denom - S * sx)
      \* projected_health_pct as a fraction of den
      den == 1000 * wear_den
      health == ClampPercent(100 * den - wear_num, den)
  IN  [weekly_degradation_percent |-> Some(RoundDiv(7000 * S, denom)),
       projected_health_percent |-> Some(RoundDiv(health, 10 * wear_den)),
       health_score |-> Some(RoundDiv(health, den)),
       trend_slope_wear_per_day |-> Some(<<S, denom>>),
       fit_nan |-> FALSE, health_exact |-> Some(<<health, den>>),
       notes |-> Notes("slope", Len(x)), entries |-> logs]

\* a slope that is NaN (numpy's fit of a rank deficient system): min(100.0,
\* nan) is 100.0, so the health is 100; the NaN fields hold 0 here
ProjectionOfNaN(found, logs) ==
  [weekly_degradation_percent |-> Some(0),
   projected_health_percent |-> Some(10000), health_score |-> Some(100),
   trend_slope_wear_per_day |-> Some(<<0, 1>>),
   fit_nan |-> TRUE, health_exact |-> Some(<<100, 1>>),
   notes |-> Notes("slope", found), entries |-> logs]

\* what a call did: it raised, or it returned value
Raised == [raised |-> TRUE, value |-> <<>>]
Returned(v) == [raised |-> FALSE, value |-> v]

\* self._load_log(): [] when the file is missing, cannot be read or parsed,
\* or holds no list
LoadLog(readable) == IF readable THEN health_log ELSE <<>>

\* append_daily_entry where the read of the existing log may fail (_load_log
\* then answers []) and the write may fail (_save_log then leaves the file)
AppendDailyEntryAfterRead(readable, writable, date_str, design, full) ==
  LET entry == Entry(date_str, design, full, None, None) IN
  /\ health_log' = IF writable
                   THEN SortByDate(Upsert(LoadLog(readable), entry))
                   ELSE health_log
  /\ appends' = Append(appends, entry)

\* BatteryPredictor.predict(months_ahead) on the loaded log.  The list
\* comprehension raises on an element that is no object; strptime of the
\* first qualifying entry's date is outside every try; an entry whose date
\* does not parse is skipped by the loop.  When all x are equal the fallback
\* fit yields no slope, and numpy's fit either raises (no slope) or yields
\* NaN (numpy_nan).
Predict(logs, months_ahead, numpy_nan) ==
  IF \E i \in 1..Len(logs) : ~IsObject(logs[i]) THEN Raised
  ELSE
    LET entries == SelectSeq(logs, Qualifies) IN
    IF Len(entries) < MIN_POINTS
    THEN Returned(NoPrediction(Notes("need", Len(entries)), logs))
    ELSE IF ~Parses(entries[1]) THEN Raised
    ELSE
      LET usable == SelectSeq(entries, Parses)
          first_date == entries[1].date
          x == [i \in 1..Len(usable) |->
                  DayNumber(usable[i].date) - DayNumber(first_date)]
          y == [i \in 1..Len(usable) |-> Get(usable[i].wear_pct)]
          denom == Len(x) * Sum([i \in 1..Len(x) |-> x[i] * x[i]])
                   - Sum(x) * Sum(x)
      IN  IF Len(x) < MIN_POINTS
          THEN Returned(NoPrediction(Notes("insufficient", Len(x)), logs))
          ELSE IF denom = 0
          THEN IF numpy_nan THEN Returned(ProjectionOfNaN(Len(x), logs))
               ELSE Returned(NoPrediction(Notes("failed", Len(x)), logs))
          ELSE Returned(Projection(x, y, months_ahead, DaysSince(first_date),
                                   logs))

\* BackendController.get_battery_prediction: {} when predict raised
GetBatteryPrediction(logs, months, numpy_nan) ==
  LET r == Predict(logs, months, numpy_nan) IN
  IF r.raised THEN <<>> ELSE r.value

\* -------------------------------------------------------- StabilityAnalyzer
\* Fixed point: a penalty is kept in thousandths, and the io and net byte
\* counts of a history in KiB (bytes / (1024 * 1024) MB is KiB / 1024).
Min(a, b) == IF a < b THEN a ELSE b
Max(a, b) == IF a > b THEN a ELSE b

\* floor(math.sqrt(n)) for 0 <= n, by bisection of lo..hi
RECURSIVE IsqrtIn(_, _, _)
IsqrtIn(n, lo, hi) ==
  IF lo = hi THEN lo
  ELSE LET mid == (lo + hi + 1) \div 2 IN
       IF mid * mid <= n THEN IsqrtIn(n, mid, hi) ELSE IsqrtIn(n, lo, mid - 1)
Isqrt(n) == IsqrtIn(n, 0, 46340)

\* not history or len(history) < 3
InsufficientBelowTwo(history) == Len(history) < 2
Insufficient(history) == Len(history) < 3

\* cpu_std / (cpu_mean + 0.1) = 10 * sqrt(n*sxx - sx*sx) / (10*sx + n), and
\* cpu_penalty = min(1.0, cpu_instability)
CpuPenalty(cpu_vals) ==
  LET n == Len(cpu_vals)
      sx == Sum(cpu_vals)
      sxx == Sum([i \in 1..n |-> cpu_vals[i] * cpu_vals[i]])
  IN  Min(1000, (1000 * Isqrt(100 * (n * sxx - sx * sx))) \div (10 * sx + n))

\* mem_slope = (mem_vals[-1] - mem_vals[0]) / max(1, n), and
\* mem_penalty = min(1.0, max(0.0, mem_slope))
MemPenalty(mem_vals) ==
  Min(1000, Max(0, (1000 * (Last(mem_vals) - mem_vals[1]))
                   \div Max(1, Len(mem_vals))))

\* io_penalty = min(1.0, io_total_mb / 50.0): 1000 * KiB / (1024 * 50)
IoPenalty(io_read, io_write) ==
  Min(1000, (5 * (Sum(io_read) + Sum(io_write))) \div 256)

\* net_penalty = min(1.0, net_total_mb / 20.0): 1000 * KiB / (1024 * 20)
NetPenalty(net_sent, net_recv) ==
  Min(1000, (25 * (Sum(net_sent) + Sum(net_recv))) \div 512)

\* 1000 * total_penalty, from the four penalties in thousandths
TotalPenalty(cpu_penalty, mem_penalty, io_penalty, net_penalty) ==
  (5 * cpu_penalty + 3 * mem_penalty + io_penalty + net_penalty) \div 10

\* score = int(max(0, min(100, round((1 - total_penalty) * 100))))
StabilityScoreNoUpperClamp(cpu_penalty, mem_penalty, io_penalty, net_penalty) ==
  Max(0, RoundDiv(10000 - (5 * cpu_penalty + 3 * mem_penalty
                            + io_penalty + net_penalty), 100))
StabilityScore(cpu_penalty, mem_penalty, io_penalty, net_penalty) ==
  Max(0, Min(100, RoundDiv(10000 - (5 * cpu_penalty + 3 * mem_penalty
                                     + io_penalty + net_penalty), 100)))

Column(history, field) == [i \in 1..Len(history) |-> history[i][field]]

\* StabilityAnalyzer.score_process(history)
ScoreProcess(history) ==
  IF Insufficient(history)
  THEN [score |-> None, breakdown |-> <<>>, notes |-> "Insufficient data."]
  ELSE
    LET cpu_penalty == CpuPenalty(Column(history, "cpu"))
        mem_penalty == MemPenalty(Column(history, "mem"))
        io_penalty == IoPenalty(Column(history, "io_read"),
                                Column(history, "io_write"))
        net_penalty == NetPenalty(Column(history, "net_sent"),
                                  Column(history, "net_recv"))
    IN  [score |-> Some(StabilityScore(cpu_penalty, mem_penalty, io_penalty,
                                       net_penalty)),
         breakdown |->
           [cpu_penalty |-> cpu_penalty, mem_penalty |-> mem_penalty,
            io_penalty |-> io_penalty, net_penalty |-> net_penalty,
            combined_penalty |-> TotalPenalty(cpu_penalty, mem_penalty,
                                              io_penalty, net_penalty)],
         notes |-> "Higher penalties indicate instability"]

\* ------------------------------------ BackendController.get_stability_scores
\* the entry of one process key, from its history
ScoreEntry(key, hist) ==
  LET r == ScoreProcess(hist) IN
  [pid |-> key[1], name |-> key[2], score |-> r.score,
   breakdown |-> r.breakdown]

\* the loop over self.proc_history.items(), keys in the order of the
\* dictionary; an empty history is skipped
RECURSIVE ScoreEntries(_)
ScoreEntries(order) ==
  IF order = <<>> THEN <<>>
  ELSE IF proc_history[order[1]] = <<>> THEN ScoreEntries(Tail(order))
  ELSE <<ScoreEntry(order[1], proc_history[order[1]])>>
       \o ScoreEntries(Tail(order))

\* (a["score"] is None, a["score"]) < (b["score"] is None, b["score"]):
\* False sorts before True, and two absent scores are equal
ScoreKeyLess(a, b) ==
  \/ a.score # None /\ b.score = None
  \/ a.score # None /\ b.score # None /\ Get(a.score) < Get(b.score)

\* scores.sort(key = ..., reverse = True): descending by key, entries with
\* equal keys in their original order
RECURSIVE InsertByScoreKey(_, _)
InsertByScoreKey(e, s) ==
  IF s = <<>> THEN <<e>>
  ELSE IF ScoreKeyLess(s[1], e) THEN <<e>> \o s
       ELSE <<s[1]>> \o InsertByScoreKey(e, Tail(s))

RECURSIVE SortByScoreKeyReversed(_)
SortByScoreKeyReversed(s) ==
  IF s = <<>> THEN <<>>
  ELSE InsertByScoreKey(Last(s),
                        SortByScoreKeyReversed(SubSeq(s, 1, Len(s) - 1)))

\* the orders in which a dictionary with these keys may list them
KeyOrders(keys) ==
  {o \in [1..Cardinality(keys) -> keys] :
     \A i, j \in 1..Cardinality(keys) : i # j => o[i] # o[j]}

GetStabilityScores(order) == SortByScoreKeyReversed(ScoreEntries(order))

\* --------------------------------------------------------------- data_store
\* What json.load finds in a daily sample file:
\*   "samples"  an object whose "samples" is the list in the field samples
\*   "object"   an object without the key "samples"
\*   "scalar"   an object whose "samples" is not a list, e.g. {"samples": 5}
\*   "array"    valid JSON that is not an object, e.g. [] or null
\*   "invalid"  no JSON at all (truncated, garbage) or a file that cannot be read
\* A missing file is a date outside DOMAIN daily_files.
SamplesFile(samples) == [json |-> "samples", samples |-> samples]
ObjectFile == [json |-> "object", samples |-> <<>>]
ScalarFile == [json |-> "scalar", samples |-> <<>>]
ArrayFile == [json |-> "array", samples |-> <<>>]
InvalidFile == [json |-> "invalid", samples |-> <<>>]

\* the data append_sample goes on with after its read of fname: a fresh
\* {"samples": []} for a missing or unreadable file, else what the file holds
LoadedForAppend(fname) ==
  IF fname \notin DOMAIN daily_files THEN SamplesFile(<<>>)
  ELSE IF daily_files[fname].json = "invalid" THEN SamplesFile(<<>>)
  ELSE daily_files[fname]

\* data["samples"] = [] raises for a non-object, and .append raises for a
\* "samples" that is not a list
AppendSampleRaises(fname) ==
  LoadedForAppend(fname).json \in {"array", "scalar"}

\* append_sample: today's file, created when missing, with one more sample;
\* when the call raises the file has not been opened for writing
AppendSampleOverwrite(sample) ==
  LET fname == Today(clock) IN
  daily_files' = [d \in DOMAIN daily_files \cup {fname} |->
                    IF d = fname THEN SamplesFile(<<sample>>)
                    ELSE daily_files[d]]
AppendSample(sample) ==
  LET fname == Today(clock)
      data == LoadedForAppend(fname)
  IN  IF AppendSampleRaises(fname) THEN daily_files' = daily_files
      ELSE daily_files' = [d \in DOMAIN daily_files \cup {fname} |->
                             IF d = fname
                             THEN SamplesFile(Append(data.samples, sample))
                             ELSE daily_files[d]]

\* load_today: what it returns, {"samples": []} for a missing or unreadable
\* file and otherwise whatever JSON value the file holds
LoadToday ==
  LET fname == Today(clock) IN
  IF fname \notin DOMAIN daily_files THEN SamplesFile(<<>>)
  ELSE IF daily_files[fname].json = "invalid" THEN SamplesFile(<<>>)
  ELSE daily_files[fname]


\* --------------------------------------------------------------- DailyStory
\* Byte counts of the daily story (net_bytes_delta, network_bytes) are kept
\* in KiB, so that sum / 1024 / 1024 MB is Sum / 1024.
\* sum(l) / len(l) > limit, the average of an empty list being 0
AvgAbove(l, limit) == l # <<>> /\ Sum(l) > limit * Len(l)

\* max(l), 0 for an empty list
PeakOf(l) == IF l = <<>> THEN 0 ELSE SeqMax(l)

\* health_score = 100, minus 20, 20 and 10
HealthScorePerSample(aggregated) ==
  100
  - (IF AvgAbove(aggregated.cpu, 70) \/ AvgAbove(aggregated.ram, 70)
     THEN 20 ELSE 0)
  - 20 * Cardinality({i \in 1..Len(aggregated.cpu) :
                        aggregated.cpu[i] > 90 \/ aggregated.ram[i] > 90})
  - (IF Sum(aggregated.network_bytes) > 2000 * 1024 THEN 10 ELSE 0)
HealthScore(aggregated) ==
  100
  - (IF AvgAbove(aggregated.cpu, 70) \/ AvgAbove(aggregated.ram, 70)
     THEN 20 ELSE 0)
  - (IF PeakOf(aggregated.cpu) > 90 \/ PeakOf(aggregated.ram) > 90
     THEN 20 ELSE 0)
  - (IF Sum(aggregated.network_bytes) > 2000 * 1024 THEN 10 ELSE 0)

\* rec: the verdict of the day
RecommendationAtLeast(health_score) ==
  IF health_score >= 80 THEN "running very smoothly"
  ELSE IF health_score >= 60 THEN "decent, but a cleanup may help"
  ELSE "high load detected"
Recommendation(health_score) ==
  IF health_score > 80 THEN "running very smoothly"
  ELSE IF health_score > 60 THEN "decent, but a cleanup may help"
  ELSE "high load detected"

\* aggregated["app_usage"][app] = aggregated["app_usage"].get(app, 0) + 1:
\* the dictionary as the sequence of its items <<app, count>> in insertion
\* order
CountApp(usage, app) ==
  IF \E i \in 1..Len(usage) : usage[i][1] = app
  THEN [i \in 1..Len(usage) |->
          IF usage[i][1] = app THEN <<app, usage[i][2] + 1>> ELSE usage[i]]
  ELSE Append(usage, <<app, 1>>)
\* the loop over samples: "if app:" skips a missing or empty top_app
RECURSIVE AppUsage(_)
AppUsage(samples) ==
  IF samples = <<>> THEN <<>>
  ELSE LET before == AppUsage(SubSeq(samples, 1, Len(samples) - 1))
           app == Last(samples).top_app
       IN  IF app # None /\ app # Some("")
           THEN CountApp(before, Get(app)) ELSE before

\* sorted(app_usage.items(), key=lambda x: x[1], reverse=True): stable, items
\* of equal count keep their order
InsertByCount(sorted, item) ==
  LET k == Cardinality({i \in 1..Len(sorted) : sorted[i][2] >= item[2]}) IN
  SubSeq(sorted, 1, k) \o <<item>> \o SubSeq(sorted, k + 1, Len(sorted))
RECURSIVE SortByCountDesc(_)
SortByCountDesc(items) ==
  IF items = <<>> THEN <<>>
  ELSE InsertByCount(SortByCountDesc(SubSeq(items, 1, Len(items) - 1)),
                     Last(items))
\* top_apps = sorted_apps[:5]
TopAppsUnsorted(app_usage) == SubSeq(app_usage, 1, Min(TOP_APPS, Len(app_usage)))
TopApps(app_usage) ==
  SubSeq(SortByCountDesc(app_usage), 1, Min(TOP_APPS, Len(app_usage)))

\* DailyStory.generate: the summary, and of the story its verdict; averages
\* are kept in hundredths of a percent
StoryAvg(l) == IF l = <<>> THEN 0 ELSE RoundDiv(100 * Sum(l), Len(l))
Generate(aggregated) ==
  [cpu_avg |-> StoryAvg(aggregated.cpu), cpu_peak |-> PeakOf(aggregated.cpu),
   ram_avg |-> StoryAvg(aggregated.ram), ram_peak |-> PeakOf(aggregated.ram),
   net_total_kib |-> Sum(aggregated.network_bytes),
   top_apps |-> TopApps(aggregated.app_usage),
   health_score |-> HealthScore(aggregated),
   rec |-> Recommendation(HealthScore(aggregated))]

\* generate_daily_story: the lists aggregated from today's samples
Aggregated(samples) ==
  [cpu |-> [i \in 1..Len(samples) |-> samples[i].cpu],
   ram |-> [i \in 1..Len(samples) |-> samples[i].ram],
   network_bytes |-> [i \in 1..Len(samples) |-> samples[i].net_bytes_delta],
   app_usage |-> AppUsage(samples)]

\* generate_daily_story: file_data.get raises for a non-object and the loop
\* over samples raises for a "samples" that is not a list; the except block
\* turns both into ("Failed to generate story.", {})
GenerateDailyStory ==
  LET file_data == LoadToday IN
  IF file_data.json \in {"array", "scalar"}
  THEN [failed |-> TRUE, samples |-> <<>>, summary |-> <<>>]
  ELSE [failed |-> FALSE, samples |-> file_data.samples,
        summary |-> Generate(Aggregated(file_data.samples))]


\* --------------------------------------------------------- DownloadsCleaner
\* The Downloads directory: whether the path exists, and its listing, one
\* record for each name: is it a regular file, its age in days (None when
\* os.path.getmtime fails), and whether os.remove succeeds on it.
File(name, isfile, age, removable) ==
  [name |-> name, isfile |-> isfile, age |-> age, removable |-> removable]
EmptyDownloads == [exists |-> TRUE, files |-> <<>>]

\* the file is removed by the loop of run_cleanup
DeletedAtLeast(f, cleanup_days) ==
  f.isfile /\ f.age # None /\ Get(f.age) >= cleanup_days /\ f.removable
Deleted(f, cleanup_days) ==
  f.isfile /\ f.age # None /\ Get(f.age) > cleanup_days /\ f.removable

Names(files) == [i \in 1..Len(files) |-> files[i].name]

\* What fails underneath one run: nothing ("none"), logger.log, whose
\* _ensure_reports_dir is outside its try ("log"), os.listdir ("list"), or
\* logger.append_report, which opens the report file outside any try
\* ("report").
CleanupFailures == {"none", "log", "list", "report"}

\* DownloadsCleaner.run_cleanup(cleanup_days): what it answers
RunCleanup(cleanup_days, fails) ==
  IF fails = "log" THEN Raised
  ELSE IF ~downloads.exists
  THEN Returned([deleted |-> <<>>, skipped |-> <<>>,
                 error |-> Some("path_not_found")])
  ELSE IF fails \in {"list", "report"} THEN Raised
  ELSE
    LET del(f) == Deleted(f, cleanup_days)
        kept(f) == ~Deleted(f, cleanup_days)
    IN  Returned([deleted |-> Names(SelectSeq(downloads.files, del)),
                  skipped |-> Names(SelectSeq(downloads.files, kept)),
                  error |-> None])

\* DownloadsCleaner.run_cleanup(cleanup_days): the directory it leaves; the
\* files are removed before the report is written
DownloadsAfter(cleanup_days, fails) ==
  IF fails \in {"log", "list"} \/ ~downloads.exists THEN downloads
  ELSE LET kept(f) == ~Deleted(f, cleanup_days) IN
       [downloads EXCEPT !.files = SelectSeq(downloads.files, kept)]


\* ------------------------------------------------- BackendController worker
\* name = proc.get("name") or str(pid); key = (pid, name)
ProcKey(proc) ==
  <<proc.pid, IF proc.name = None \/ proc.name = <<"">> THEN ToString(proc.pid)
              ELSE Get(proc.name)>>

\* the entry of one process of top_cpu (its dictionary has no memory_percent)
ProcEntry(proc, ts) ==
  [ts |-> ts, cpu |-> proc.cpu_percent, mem |-> 0,
   io_read |-> 0, io_write |-> 0, net_sent |-> 0, net_recv |-> 0]

\* hist_list = self.proc_history.setdefault(key, []), then the capped append
RECURSIVE ProcAppendAll(_, _, _)
ProcAppendAll(hist, procs, ts) ==
  IF procs = <<>> THEN hist
  ELSE LET key == ProcKey(procs[1])
           old == IF key \in DOMAIN hist THEN hist[key] ELSE <<>>
           new == ListAppendCapped(old, ProcEntry(procs[1], ts))
       IN  ProcAppendAll([k \in DOMAIN hist \cup {key} |->
                            IF k = key THEN new ELSE hist[k]],
                         Tail(procs), ts)

\* the same appends without the cap: every entry ever pushed per key
RECURSIVE ProcPushAll(_, _, _)
ProcPushAll(log, procs, ts) ==
  IF procs = <<>> THEN log
  ELSE LET key == ProcKey(procs[1])
           old == IF key \in DOMAIN log THEN log[key] ELSE <<>>
       IN  ProcPushAll([k \in DOMAIN log \cup {key} |->
                          IF k = key THEN Append(old, ProcEntry(procs[1], ts))
                          ELSE log[k]],
                       Tail(procs), ts)

\* merged = {...}: the snapshot of one tick
MergedStaleBattery(sys, bat, disk, net, ts) ==
  [cpu |-> sys.cpu, ram |-> sys.ram, top_cpu |-> sys.top_cpu,
   cpu_hits |-> sys.cpu_hits, ram_hits |-> sys.ram_hits,
   cpu_history |-> sys.cpu_history, ram_history |-> sys.ram_history,
   peak_cpu |-> sys.peak_cpu, peak_cpu_time |-> sys.peak_cpu_time,
   peak_ram |-> sys.peak_ram, peak_ram_time |-> sys.peak_ram_time,
   battery |-> IF latest = None THEN bat ELSE Get(latest).battery,
   disk |-> disk, network |-> net,
   timestamp |-> ts, tick |-> sys.tick]
Merged(sys, bat, disk, net, ts) ==
  [cpu |-> sys.cpu, ram |-> sys.ram, top_cpu |-> sys.top_cpu,
   cpu_hits |-> sys.cpu_hits, ram_hits |-> sys.ram_hits,
   cpu_history |-> sys.cpu_history, ram_history |-> sys.ram_history,
   peak_cpu |-> sys.peak_cpu, peak_cpu_time |-> sys.peak_cpu_time,
   peak_ram |-> sys.peak_ram, peak_ram_time |-> sys.peak_ram_time,
   battery |-> bat, disk |-> disk, network |-> net,
   timestamp |-> ts, tick |-> sys.tick]

\* the sample of one tick for the daily story
DailySample(sys, net, ts) ==
  [ts |-> ts, cpu |-> sys.cpu, ram |-> sys.ram,
   net_bytes_delta |->
     (IF "bytes_recv_total" \in DOMAIN net THEN net.bytes_recv_total ELSE 0)
     + (IF "bytes_sent_total" \in DOMAIN net THEN net.bytes_sent_total ELSE 0),
   top_app |-> IF sys.top_cpu # <<>> THEN sys.top_cpu[1].name ELSE None,
   battery_event |-> None]

mon_state == <<sysmon_vars, netmon_vars, disk_history, fired, pushed>>
ctl_shared == <<lock, latest, running, published>>
other_threads == <<rd_pc, rd_ret, rd_seen, stop_pc>>
stores == <<health_log, appends, daily_files>>
sched_state == <<last_daily_run, cleanup_calls, clock>>
ui_state == <<downloads, query, result, self_cleanup_days, scan, pending>>

\* while self.running: one more iteration, up to maxTicks in the model
WLoopTestIgnoringFlag(maxTicks, hosts) ==
  /\ pc = "loop"
  /\ \/ /\ ticks < maxTicks
        /\ pc' = "sys" /\ ticks' = ticks + 1
        /\ host' \in hosts
     \/ ~running /\ pc' = "done" /\ UNCHANGED <<ticks, host>>
  /\ UNCHANGED <<mon_state, ctl_shared, other_threads, stores, sched_state,
                 local_vars, proc_history, proc_pushed, failed_ticks>>
  /\ UNCHANGED ui_state
WLoopTest(maxTicks, hosts) ==
  /\ pc = "loop"
  /\ \/ /\ running /\ ticks < maxTicks
        /\ pc' = "sys" /\ ticks' = ticks + 1
        /\ host' \in hosts
     \/ ~running /\ pc' = "done" /\ UNCHANGED <<ticks, host>>
  /\ UNCHANGED <<mon_state, ctl_shared, other_threads, stores, sched_state,
                 local_vars, proc_history, proc_pushed, failed_ticks>>
  /\ UNCHANGED ui_state

\* sys_info = self.sysmon.sample(); it may raise before it touched the
\* monitor ("pre") or after it updated it ("post")
WSampleSys(mode) ==
  /\ pc = "sys"
  /\ CASE mode = "ok" ->
            /\ SysSample(host.cpu, host.ram)
            /\ sys_info' = Some(SysInfo(host.cpu, host.ram, host.procs))
            /\ pc' = "bat"
       [] mode = "pre" ->
            /\ UNCHANGED <<sysmon_vars, fired, pushed, sys_info>>
            /\ pc' = "except"
       [] mode = "post" ->
            /\ SysSample(host.cpu, host.ram)
            /\ sys_info' = sys_info
            /\ pc' = "except"
  /\ UNCHANGED <<netmon_vars, disk_history, ctl_shared, other_threads, stores,
                 sched_state, bat_info, disk_info, net_info, now_ts, merged,
                 proc_history, proc_pushed, failed_ticks, ticks, host>>
  /\ UNCHANGED ui_state

\* bat_info = self.batmon.sample()
WSampleBat(fail) ==
  /\ pc = "bat"
  /\ IF fail THEN pc' = "except" /\ bat_info' = bat_info
     ELSE pc' = "disk" /\ bat_info' = Some(BatInfo(host.bat))
  /\ UNCHANGED <<mon_state, ctl_shared, other_threads, stores, sched_state,
                 sys_info, disk_info, net_info, now_ts, merged,
                 proc_history, proc_pushed, failed_ticks, ticks, host>>
  /\ UNCHANGED ui_state

\* disk_info = self.diskmon.sample()
WSampleDisk(fail) ==
  /\ pc = "disk"
  /\ IF fail
     THEN pc' = "except" /\ UNCHANGED <<disk_history, disk_info, pushed>>
     ELSE pc' = "net" /\ DiskSample(host.disk_used, host.disk_total)
  /\ UNCHANGED <<sysmon_vars, netmon_vars, fired, ctl_shared, other_threads,
                 stores, sched_state, sys_info, bat_info, net_info, now_ts,
                 merged, proc_history, proc_pushed, failed_ticks, ticks, host>>
  /\ UNCHANGED ui_state

\* net_info = self.netmon.sample(); now_ts = time.time()
WSampleNet(fail) ==
  /\ pc = "net"
  /\ IF fail
     THEN pc' = "except" /\ UNCHANGED <<netmon_vars, net_info, pushed, now_ts>>
     ELSE pc' = "proc" /\ NetSample(host.drecv, host.dsent) /\ now_ts' = clock
  /\ UNCHANGED <<sysmon_vars, disk_history, fired, ctl_shared, other_threads,
                 stores, sched_state, sys_info, bat_info, disk_info,
                 merged, proc_history, proc_pushed, failed_ticks, ticks, host>>
  /\ UNCHANGED ui_state

\* for proc in sys_info.get("top_cpu", []): the per-process histories
WProcHistory ==
  /\ pc = "proc"
  /\ proc_history' = ProcAppendAll(proc_history, Get(sys_info).top_cpu, now_ts)
  /\ proc_pushed' = ProcPushAll(proc_pushed, Get(sys_info).top_cpu, now_ts)
  /\ pc' = "batlog"
  /\ UNCHANGED <<mon_state, ctl_shared, other_threads, stores, sched_state,
                 local_vars, failed_ticks, ticks, host>>
  /\ UNCHANGED ui_state

\* the daily battery health entry, inside its own try: an error is logged
\* (self.battery_history, which nothing reads, is left out)
WBatteryLog(fail) ==
  LET b == Get(bat_info)
      due == Truthy(b.design_capacity_mwh) /\ Truthy(b.full_charge_capacity_mwh)
  IN
  /\ pc = "batlog"
  /\ fail => due
  /\ IF due /\ ~fail
     THEN AppendDailyEntry(Today(clock), b.design_capacity_mwh,
                           b.full_charge_capacity_mwh, b.cycle_count,
                           b.voltage_mv)
     ELSE UNCHANGED <<health_log, appends>>
  /\ pc' = "merge"
  /\ UNCHANGED <<mon_state, ctl_shared, other_threads, daily_files,
                 sched_state, local_vars, proc_history, proc_pushed,
                 failed_ticks, ticks, host>>
  /\ UNCHANGED ui_state

\* merged = {...}
WMerge ==
  /\ pc = "merge"
  /\ merged' = Some(Merged(Get(sys_info), Get(bat_info), Get(disk_info),
                           Get(net_info), now_ts))
  /\ pc' = "lock"
  /\ UNCHANGED <<mon_state, ctl_shared, other_threads, stores, sched_state,
                 sys_info, bat_info, disk_info, net_info, now_ts,
                 proc_history, proc_pushed, failed_ticks, ticks, host>>
  /\ UNCHANGED ui_state

\* with self.lock: (entering)
WAcquire ==
  /\ pc = "lock"
  /\ lock = None
  /\ lock' = Some(0)
  /\ pc' = "swap"
  /\ UNCHANGED <<mon_state, latest, running, published, other_threads, stores,
                 sched_state, local_vars, proc_history, proc_pushed,
                 failed_ticks, ticks, host>>
  /\ UNCHANGED ui_state

\* self.latest = merged, and the lock is released on leaving the block
WPublishFirstOnly ==
  /\ pc = "swap"
  /\ latest' = IF latest = None THEN merged ELSE latest
  /\ published' = Append(published, Get(merged))
  /\ lock' = None
  /\ pc' = "save"
  /\ UNCHANGED <<mon_state, running, other_threads, stores, sched_state,
                 local_vars, proc_history, proc_pushed, failed_ticks, ticks, host>>
  /\ UNCHANGED ui_state
WPublishHoldingLock ==
  /\ pc = "swap"
  /\ latest' = merged
  /\ published' = Append(published, Get(merged))
  /\ lock' = lock
  /\ pc' = "save"
  /\ UNCHANGED <<mon_state, running, other_threads, stores, sched_state,
                 local_vars, proc_history, proc_pushed, failed_ticks, ticks, host>>
  /\ UNCHANGED ui_state
WPublish ==
  /\ pc = "swap"
  /\ latest' = merged
  /\ published' = Append(published, Get(merged))
  /\ lock' = None
  /\ pc' = "save"
  /\ UNCHANGED <<mon_state, running, other_threads, stores, sched_state,
                 local_vars, proc_history, proc_pushed, failed_ticks, ticks, host>>
  /\ UNCHANGED ui_state

\* append_sample(sample), inside its own try: an error is logged
WSaveSample(fail) ==
  /\ pc = "save"
  /\ IF fail THEN daily_files' = daily_files
     ELSE AppendSample(DailySample(Get(sys_info), Get(net_info), now_ts))
  /\ pc' = "cleanup"
  /\ UNCHANGED <<mon_state, ctl_shared, other_threads, health_log, appends,
                 sched_state, local_vars, proc_history, proc_pushed,
                 failed_ticks, ticks, host>>
  /\ UNCHANGED ui_state

\* the scheduled daily cleanup; run_cleanup may raise, and then neither
\* last_daily_run is set nor the pause taken
WCleanup(fail) ==
  LET due == /\ HourOf(clock) = CLEANUP_HOUR
             /\ MinuteOf(clock) = CLEANUP_MINUTE
             /\ last_daily_run # Some(Today(clock))
  IN
  /\ pc = "cleanup"
  /\ fail => due
  /\ IF due
     THEN /\ cleanup_calls' = Append(cleanup_calls,
                                [date |-> Today(clock), hour |-> HourOf(clock),
                                 minute |-> MinuteOf(clock), raised |-> fail])
          /\ IF fail
             THEN pc' = "except" /\ UNCHANGED <<last_daily_run, clock>>
             ELSE /\ last_daily_run' = Some(Today(clock))
                  /\ clock' = clock + CLEANUP_PAUSE
                  /\ pc' = "sleep"
     ELSE pc' = "sleep" /\ UNCHANGED sched_state
  /\ UNCHANGED <<mon_state, ctl_shared, other_threads, stores, local_vars,
                 proc_history, proc_pushed, failed_ticks, ticks, host>>
  /\ UNCHANGED ui_state

\* except Exception as e: logger.log(...)
WExceptExit ==
  /\ pc = "except"
  /\ pc' = "done"
  /\ failed_ticks' = failed_ticks + 1
  /\ UNCHANGED <<mon_state, ctl_shared, other_threads, stores, sched_state,
                 local_vars, proc_history, proc_pushed, ticks, host>>
  /\ UNCHANGED ui_state
WExcept ==
  /\ pc = "except"
  /\ pc' = "sleep"
  /\ failed_ticks' = failed_ticks + 1
  /\ UNCHANGED <<mon_state, ctl_shared, other_threads, stores, sched_state,
                 local_vars, proc_history, proc_pushed, ticks, host>>
  /\ UNCHANGED ui_state

\* time.sleep(config.CHECK_INTERVAL), which may take longer by extra seconds
WSleep(extra) ==
  /\ pc = "sleep"
  /\ clock' = clock + CHECK_INTERVAL + extra
  /\ pc' = "loop"
  /\ UNCHANGED <<mon_state, ctl_shared, other_threads, stores, last_daily_run,
                 cleanup_calls, local_vars, proc_history, proc_pushed,
                 failed_ticks, ticks, host>>
  /\ UNCHANGED ui_state


\* -------------------------------------------------------------- get_latest
Readers == 1..NumReaders

\* with self.lock: (entering)
GetLatestAcquire(r) ==
  /\ rd_pc[r] \in {"idle", "returned"}
  /\ lock = None
  /\ lock' = Some(r)
  /\ rd_pc' = [rd_pc EXCEPT ![r] = "locked"]
  /\ UNCHANGED <<mon_state, latest, running, published, rd_ret, rd_seen,
                 stop_pc, stores, sched_state, local_vars, pc, proc_history,
                 proc_pushed, failed_ticks, ticks, host>>
  /\ UNCHANGED ui_state

GetLatestReturnRewinding(r) ==
  /\ rd_pc[r] = "locked"
  /\ rd_ret' = [rd_ret EXCEPT ![r] = IF rd_ret[r] # None
                                     THEN Some(published[1]) ELSE latest]
  /\ rd_seen' = [rd_seen EXCEPT ![r] = Len(published)]
  /\ lock' = None
  /\ rd_pc' = [rd_pc EXCEPT ![r] = "returned"]
  /\ UNCHANGED <<mon_state, latest, running, published, stop_pc, stores,
                 sched_state, local_vars, pc, proc_history, proc_pushed,
                 failed_ticks, ticks, host>>
  /\ UNCHANGED ui_state
GetLatestReturnTaking(r) ==
  /\ rd_pc[r] = "locked"
  /\ rd_ret' = [rd_ret EXCEPT ![r] = latest]
  /\ rd_seen' = [rd_seen EXCEPT ![r] = Len(published)]
  /\ latest' = None
  /\ lock' = None
  /\ rd_pc' = [rd_pc EXCEPT ![r] = "returned"]
  /\ UNCHANGED <<mon_state, running, published, stop_pc, stores,
                 sched_state, local_vars, pc, proc_history, proc_pushed,
                 failed_ticks, ticks, host>>
  /\ UNCHANGED ui_state
\* return self.latest, and the lock is released on leaving the block
GetLatestReturn(r) ==
  /\ rd_pc[r] = "locked"
  /\ rd_ret' = [rd_ret EXCEPT ![r] = latest]
  /\ rd_seen' = [rd_seen EXCEPT ![r] = Len(published)]
  /\ lock' = None
  /\ rd_pc' = [rd_pc EXCEPT ![r] = "returned"]
  /\ UNCHANGED <<mon_state, latest, running, published, stop_pc, stores,
                 sched_state, local_vars, pc, proc_history, proc_pushed,
                 failed_ticks, ticks, host>>
  /\ UNCHANGED ui_state

\* -------------------------------------------------------------------- stop
\* self.running = False
StopCall ==
  /\ stop_pc = "idle"
  /\ running' = FALSE
  /\ stop_pc' = "joining"
  /\ UNCHANGED <<mon_state, lock, latest, published, rd_pc, rd_ret, rd_seen,
                 stores, sched_state, local_vars, pc, proc_history,
                 proc_pushed, failed_ticks, ticks, host>>
  /\ UNCHANGED ui_state

\* self.worker_thread.join(timeout=2): the worker ended, or 2 s went by
StopJoin(timeout) ==
  /\ stop_pc = "joining"
  /\ IF timeout THEN pc # "done" ELSE pc = "done"
  /\ stop_pc' = "returned"
  /\ UNCHANGED <<mon_state, ctl_shared, rd_pc, rd_ret, rd_seen, stores,
                 sched_state, local_vars, pc, proc_history, proc_pushed,
                 failed_ticks, ticks, host>>
  /\ UNCHANGED ui_state

\* ------------------------------------------ the queries of the user interface
\* everything the worker, the readers of the snapshot and stop() work on
worker_state == <<mon_state, ctl_shared, other_threads, sched_state,
                  local_vars, pc, proc_history, proc_pushed, failed_ticks,
                  ticks, host>>

\* self.batt_predictor.predict(months_ahead = months)
UiPredict(months, readable, numpy_nan) ==
  /\ query' = Some([op |-> "predict", months |-> months,
                    readable |-> readable, numpy_nan |-> numpy_nan])
  /\ result' = Some(Predict(LoadLog(readable), months, numpy_nan))
  /\ UNCHANGED <<worker_state, stores, downloads, self_cleanup_days, scan,
                 pending>>

\* backend.get_battery_prediction(months)
UiGetBatteryPrediction(months, readable, numpy_nan) ==
  /\ query' = Some([op |-> "get_battery_prediction", months |-> months,
                    readable |-> readable, numpy_nan |-> numpy_nan])
  /\ result' = Some(GetBatteryPrediction(LoadLog(readable), months, numpy_nan))
  /\ UNCHANGED <<worker_state, stores, downloads, self_cleanup_days, scan,
                 pending>>

\* self.stability_analyzer.score_process(history)
UiScoreProcess(history) ==
  /\ query' = Some([op |-> "score_process", history |-> history])
  /\ result' = Some(ScoreProcess(history))
  /\ UNCHANGED <<worker_state, stores, downloads, self_cleanup_days, scan,
                 pending>>

\* backend.get_stability_scores(); the model does not keep the insertion
\* order of self.proc_history, so every order of its keys is tried
UiGetStabilityScores(order) ==
  /\ query' = Some([op |-> "get_stability_scores", order |-> order])
  /\ result' = Some(GetStabilityScores(order))
  /\ UNCHANGED <<worker_state, stores, downloads, self_cleanup_days, scan,
                 pending>>

\* backend.get_stability_scores() on a reader thread, item by item while the
\* worker runs: the call begins its loop over self.proc_history.items()
ScanBegin(order) ==
  /\ scan.pc = "idle"
  /\ scan' = [pc |-> "iter", order |-> order, idx |-> 0,
              size |-> Cardinality(DOMAIN proc_history), scores |-> <<>>,
              began |-> proc_history, raised |-> FALSE, ret |-> <<>>]
  /\ UNCHANGED <<worker_state, stores, downloads, query, result,
                 self_cleanup_days, pending>>

\* the next item of the loop: the dictionary iterator raises RuntimeError
\* when the dictionary changed size since the loop began, and the except
\* block logs it, so that the call returns the entries collected so far,
\* unsorted; at the end of the loop the entries are sorted and returned
ScanNextItem ==
  /\ scan.pc = "iter"
  /\ IF Cardinality(DOMAIN proc_history) # scan.size
     THEN scan' = [scan EXCEPT !.pc = "done", !.raised = TRUE,
                               !.ret = scan.scores]
     ELSE IF scan.idx = scan.size
     THEN scan' = [scan EXCEPT !.pc = "done",
                               !.ret = SortByScoreKeyReversed(scan.scores)]
     ELSE LET key == scan.order[scan.idx + 1]
              hist == proc_history[key]
          IN  scan' = [scan EXCEPT
                         !.idx = @ + 1,
                         !.scores = IF hist = <<>> THEN @
                                    ELSE Append(@, ScoreEntry(key, hist))]
  /\ UNCHANGED <<worker_state, stores, downloads, query, result,
                 self_cleanup_days, pending>>

\* load_today()
UiLoadToday ==
  /\ query' = Some([op |-> "load_today"])
  /\ result' = Some(LoadToday)
  /\ UNCHANGED <<worker_state, stores, downloads, self_cleanup_days, scan,
                 pending>>

\* backend.generate_daily_story()
UiGenerateDailyStory ==
  /\ query' = Some([op |-> "generate_daily_story"])
  /\ result' = Some(GenerateDailyStory)
  /\ UNCHANGED <<worker_state, stores, downloads, self_cleanup_days, scan,
                 pending>>

\* backend.run_cleanup_now(), with self.cleanup_days = cleanup_days
UiRunCleanupNow(cleanup_days, fails) ==
  /\ query' = Some([op |-> "run_cleanup", cleanup_days |-> cleanup_days,
                    fails |-> fails, listing |-> downloads])
  /\ result' = Some(RunCleanup(cleanup_days, fails))
  /\ downloads' = DownloadsAfter(cleanup_days, fails)
  /\ UNCHANGED <<worker_state, stores, self_cleanup_days, scan, pending>>

\* ------------------------------------------------- the cleanup interval
\* the values a caller may pass as days: an int, a bool, a float (in tenths),
\* a str (its characters) or None
PyInt(n) == [type |-> "int", v |-> n]
PyBool(b) == [type |-> "bool", truth |-> b]
PyFloat(tenths) == [type |-> "float", tenths |-> tenths]
PyStr(text) == [type |-> "str", text |-> text]
PyNone == [type |-> "NoneType"]

DigitChars == <<"0", "1", "2", "3", "4", "5", "6", "7", "8", "9">>
IsDigit(c) == \E d \in 1..10 : DigitChars[d] = c
DigitValue(c) == (CHOOSE d \in 1..10 : DigitChars[d] = c) - 1
RECURSIVE DigitsValue(_)
DigitsValue(text) ==
  IF text = <<>> THEN 0
  ELSE 10 * DigitsValue(SubSeq(text, 1, Len(text) - 1))
       + DigitValue(text[Len(text)])
RECURSIVE Strip(_)
Strip(text) ==
  IF text # <<>> /\ text[1] = " " THEN Strip(Tail(text))
  ELSE IF text # <<>> /\ text[Len(text)] = " "
       THEN Strip(SubSeq(text, 1, Len(text) - 1))
       ELSE text
\* int(text) of a str: blanks stripped, an optional sign, then digits only
ParseInt(text) ==
  LET s == Strip(text)
      signed == s # <<>> /\ s[1] \in {"-", "+"}
      body == IF signed THEN Tail(s) ELSE s
  IN  IF body = <<>> \/ \E i \in 1..Len(body) : ~IsDigit(body[i])
      THEN Raised
      ELSE Returned(IF signed /\ s[1] = "-" THEN -DigitsValue(body)
                    ELSE DigitsValue(body))
\* int(x) of a float: truncation toward zero
Truncate(tenths) ==
  IF tenths >= 0 THEN tenths \div 10 ELSE -((-tenths) \div 10)
\* d = int(days)
IntOf(days) ==
  CASE days.type = "int" -> Returned(days.v)
    [] days.type = "bool" -> Returned(IF days.truth THEN 1 ELSE 0)
    [] days.type = "float" -> Returned(Truncate(days.tenths))
    [] days.type = "str" -> ParseInt(days.text)
    [] OTHER -> Raised

\* backend.set_cleanup_days(days): what it returns and the value it leaves in
\* self.cleanup_days; log_raises says that logger.log raised (the reports
\* directory could not be created), which happens after the assignment
SetCleanupDays(days, log_raises) ==
  LET d == IntOf(days) IN
  IF d.raised THEN [returned |-> FALSE, cleanup_days |-> self_cleanup_days]
  ELSE IF d.value < 0
       THEN [returned |-> FALSE, cleanup_days |-> self_cleanup_days]
       ELSE [returned |-> ~log_raises, cleanup_days |-> d.value]
\* backend.get_cleanup_days()
GetCleanupDays == self_cleanup_days

UiSetCleanupDays(days, log_raises) ==
  /\ query' = Some([op |-> "set_cleanup_days", days |-> days,
                    log_raises |-> log_raises, before |-> self_cleanup_days])
  /\ result' = Some(Returned(SetCleanupDays(days, log_raises).returned))
  /\ self_cleanup_days' = SetCleanupDays(days, log_raises).cleanup_days
  /\ UNCHANGED <<worker_state, stores, downloads, scan, pending>>

UiGetCleanupDays ==
  /\ query' = Some([op |-> "get_cleanup_days"])
  /\ result' = Some(Returned(GetCleanupDays))
  /\ UNCHANGED <<worker_state, stores, downloads, self_cleanup_days, scan,
                 pending>>

\* ------------------------------------------------------------------- hosts
Proc(pid, name, cpu) == [pid |-> pid, name |-> name, cpu_percent |-> cpu]
Battery(present, design, full) ==
  [present |-> present, percent |-> Some(80), design |-> design, full |-> full]
Host(cpu, ram, procs, used, drecv, dsent, bat) ==
  [cpu |-> cpu, ram |-> ram, procs |-> procs, disk_used |-> used,
   disk_total |-> 100, drecv |-> drecv, dsent |-> dsent, bat |-> bat]

Chrome == Proc(10, Some("chrome.exe"), 40)
Code == Proc(11, Some("code.exe"), 20)
Idle == Proc(4, None, 5)
Svc == Proc(12, Some("svchost.exe"), 1)

\* what the operating system may report during a tick
QuietHost ==
  Host(30, 40, <<Idle>>, 40, 0, 0, Battery(FALSE, None, None))
CpuBoundHost ==
  Host(90, 85, <<Code, Chrome>>, 41, 2048, 128,
       Battery(TRUE, Some(50000), Some(45000)))
RamBoundHost ==
  Host(85, 90, <<Svc, Code, Idle, Chrome>>, 42, 512, 4096,
       Battery(TRUE, Some(50000), Some(47500)))
BusyHost ==
  Host(95, 95, <<Chrome>>, 41, 1024, 1024, Battery(TRUE, Some(50000), None))

\* chrome.exe spikes, and the idle process shows up among the top three
SpikeHost ==
  Host(60, 50, <<Proc(10, Some("chrome.exe"), 90), Code, Idle>>, 41, 0, 0,
       Battery(FALSE, None, None))

\* psutil reports no battery while the battery report on disk (left by an
\* earlier run of powercfg) still yields both capacities
NoSensorHost ==
  Host(30, 40, <<Idle>>, 40, 0, 0, Battery(FALSE, Some(50000), Some(45000)))

MonHosts == {QuietHost, CpuBoundHost, RamBoundHost, BusyHost}
StabHosts == {CpuBoundHost, SpikeHost}
CtlHosts == {CpuBoundHost}
SchedHosts == {QuietHost}
SourceHosts == {QuietHost, BusyHost, NoSensorHost, CpuBoundHost}

\* -------------------------------------------------------------------- Init
\* the state after BackendController.__init__ when the clock shows t0
InitCore(t0) ==
  /\ cpu_history = <<>> /\ ram_history = <<>>
  /\ cpu_hits = 0 /\ ram_hits = 0
  /\ peak_cpu = 0 /\ peak_cpu_time = None
  /\ peak_ram = 0 /\ peak_ram_time = None
  /\ last_total_recv = None /\ last_total_sent = None
  /\ history_down = <<>> /\ history_up = <<>>
  /\ peak_download = 0 /\ peak_download_time = None
  /\ peak_upload = 0 /\ peak_upload_time = None
  /\ disk_history = <<>>
  /\ lock = None /\ latest = None /\ running = TRUE
  /\ proc_history = <<>>
  /\ pc = "loop"
  /\ sys_info = None /\ bat_info = None /\ disk_info = None /\ net_info = None
  /\ now_ts = 0 /\ merged = None /\ last_daily_run = None
  /\ rd_pc = [r \in Readers |-> "idle"]
  /\ rd_ret = [r \in Readers |-> None]
  /\ rd_seen = [r \in Readers |-> 0]
  /\ stop_pc = "idle"
  /\ clock = t0
  /\ net_counters = [recv |-> 0, sent |-> 0]
  /\ host = QuietHost
  /\ ticks = 0
  /\ pushed = [cpu |-> <<>>, ram |-> <<>>, disk |-> <<>>, down |-> <<>>,
               up |-> <<>>]
  /\ proc_pushed = <<>>
  /\ fired = [cpu |-> FALSE, ram |-> FALSE]
  /\ published = <<>>
  /\ cleanup_calls = <<>>
  /\ failed_ticks = 0
  /\ appends = <<>>

\* no battery log and no daily sample file yet, an empty Downloads directory
InitAt(t0) ==
  /\ InitCore(t0)
  /\ health_log = <<>> /\ daily_files = <<>>
  /\ downloads = EmptyDownloads
  /\ query = None /\ result = None
  /\ self_cleanup_days = SINGLE_RULE_DAYS
  /\ scan = NoScan /\ pending = None

\* 08:59:50 on the first day
MorningStart == 8 * 3600 + 59 * 60 + 50

\* ------------------------------------------------- the monitors, tick by tick
\* the worker loop alone, no failures: MonTicks ticks over every host
MonInit == InitAt(MorningStart)
MonNext ==
  \/ WLoopTest(MonTicks, MonHosts)
  \/ WSampleSys("ok")
  \/ WSampleBat(FALSE)
  \/ WSampleDisk(FALSE)
  \/ WSampleNet(FALSE)
  \/ WProcHistory
  \/ WBatteryLog(FALSE)
  \/ WMerge
  \/ WAcquire
  \/ WPublish
  \/ WSaveSample(FALSE)
  \/ WCleanup(FALSE)
  \/ WSleep(0)
SpecMon == MonInit /\ [][MonNext]_vars


\* ------------------------------------------- the controller and its readers
\* 09:00:00 on the first day: the first tick falls into the cleanup minute
CtlStart == 9 * 3600

Init == InitAt(CtlStart)
Next ==
  \/ WLoopTest(MaxTicks, CtlHosts)
  \/ \E mode \in {"ok", "pre", "post"} : WSampleSys(mode)
  \/ \E fail \in BOOLEAN : WSampleBat(fail)
  \/ \E fail \in BOOLEAN : WSampleDisk(fail)
  \/ \E fail \in BOOLEAN : WSampleNet(fail)
  \/ WProcHistory
  \/ \E fail \in BOOLEAN : WBatteryLog(fail)
  \/ WMerge
  \/ WAcquire
  \/ WPublish
  \/ \E fail \in BOOLEAN : WSaveSample(fail)
  \/ \E fail \in BOOLEAN : WCleanup(fail)
  \/ WExcept
  \/ WSleep(0)
  \/ \E r \in Readers : GetLatestAcquire(r)
  \/ \E r \in Readers : GetLatestReturn(r)
  \/ StopCall
  \/ \E timeout \in BOOLEAN : StopJoin(timeout)
Spec == Init /\ [][Next]_vars

\* ------------------------------------------------------ the daily schedule
\* the worker loop over several days: a sleep may last until the next
\* morning (the host was suspended), and any step of a tick may raise
NextMorning == 24 * 3600 - CLEANUP_PAUSE - CHECK_INTERVAL

\* 08:59:55 on the first day: the second tick falls into the cleanup minute
SchedStart == 8 * 3600 + 59 * 60 + 55

SchedInit == InitAt(SchedStart)
SchedNext ==
  \/ WLoopTest(SchedTicks, SchedHosts)
  \/ \E mode \in {"ok", "pre"} : WSampleSys(mode)
  \/ WSampleBat(FALSE)
  \/ WSampleDisk(FALSE)
  \/ WSampleNet(FALSE)
  \/ WProcHistory
  \/ WBatteryLog(FALSE)
  \/ WMerge
  \/ WAcquire
  \/ WPublish
  \/ WSaveSample(FALSE)
  \/ \E fail \in BOOLEAN : WCleanup(fail)
  \/ WExcept
  \/ \E extra \in {0, NextMorning} : WSleep(extra)
SpecSched == SchedInit /\ [][SchedNext]_vars

\* ------------------------------------------------------ the battery health log
BattDates == {<<2025, 12, 31>>, <<2026, 1, 30>>, <<2026, 2, 1>>}
BattDesign == {Some(50000)}
BattFull == {Some(45000), Some(47500), Some(52000), None}

\* one call of append_daily_entry
BattAppend(date_str, design, full) ==
  /\ Len(appends) < MaxAppends
  /\ AppendDailyEntry(date_str, design, full, None, None)
  /\ UNCHANGED <<mon_state, ctl_shared, other_threads, daily_files,
                 sched_state, local_vars, pc, proc_history, proc_pushed,
                 failed_ticks, ticks, host>>
  /\ UNCHANGED ui_state

BattInit == InitAt(CtlStart)
BattNext ==
  \E d \in BattDates, design \in BattDesign, full \in BattFull :
    BattAppend(d, design, full)
SpecBatt == BattInit /\ [][BattNext]_vars


\* ------------------------------------------------------ the battery prediction
\* predict on every log file of up to MaxLogLen elements: entries of three
\* successive days with a wear of 0 %, 10 % or none, an entry whose date is
\* no date, and an element that is no object
PredDates == {<<2026, 1, 28>>, <<2026, 1, 29>>, <<2026, 1, 30>>}
PredEntries ==
  {Entry(d, Some(50000), full, None, None) :
     d \in PredDates, full \in {Some(50000), Some(45000), None}}
  \cup {Entry(<<2026, 2, 30>>, Some(50000), Some(47500), None, None),
        NotAnObject}
PredLogs ==
  UNION {[1..n -> PredEntries] : n \in 0..MaxLogLen}
PredMonths == {0, 1, 6}

PredInit ==
  /\ InitCore(CtlStart)
  /\ health_log \in PredLogs /\ daily_files = <<>>
  /\ downloads = EmptyDownloads
  /\ query = None /\ result = None
  /\ self_cleanup_days = SINGLE_RULE_DAYS
  /\ scan = NoScan /\ pending = None
\* one query in each behaviour
PredNext ==
  \/ \E months \in PredMonths, readable \in BOOLEAN, numpy_nan \in BOOLEAN :
       query = None /\ UiPredict(months, readable, numpy_nan)
  \/ \E months \in PredMonths, readable \in BOOLEAN, numpy_nan \in BOOLEAN :
       query = None /\ UiGetBatteryPrediction(months, readable, numpy_nan)
SpecPred == PredInit /\ [][PredNext]_vars


\* ------------------------------------------------------- the stability score
\* score_process on every history of up to MaxSamples samples: a calm
\* process, a cpu spike, a process on several cores, a growing memory with
\* about 50 GB read and 10 GB sent, and a sample whose io counter went back
HistorySample(cpu, mem, io_read, net_sent) ==
  [ts |-> 0, cpu |-> cpu, mem |-> mem, io_read |-> io_read, io_write |-> 0,
   net_sent |-> net_sent, net_recv |-> 0]
HistorySamples ==
  {HistorySample(5, 10, 0, 0), HistorySample(100, 10, 0, 0),
   HistorySample(400, 11, 2560, 512),
   HistorySample(5, 5000, 50000000, 10000000),
   HistorySample(0, 0, -102400, 0)}
Histories == UNION {[1..n -> HistorySamples] : n \in 0..MaxSamples}

\* one call in each behaviour
ScoreNext ==
  \E history \in Histories : query = None /\ UiScoreProcess(history)
SpecScore == InitAt(CtlStart) /\ [][ScoreNext]_vars


\* ------------------------------------------------------ the stability scores
\* the worker loop, no failures, and one get_stability_scores in each
\* behaviour, between any two steps of the worker
StabNext ==
  \/ WLoopTest(MonTicks, StabHosts)
  \/ WSampleSys("ok")
  \/ WSampleBat(FALSE)
  \/ WSampleDisk(FALSE)
  \/ WSampleNet(FALSE)
  \/ WProcHistory
  \/ WBatteryLog(FALSE)
  \/ WMerge
  \/ WAcquire
  \/ WPublish
  \/ WSaveSample(FALSE)
  \/ WCleanup(FALSE)
  \/ WSleep(0)
  \/ \E order \in KeyOrders(DOMAIN proc_history) :
       query = None /\ UiGetStabilityScores(order)
SpecStab == InitAt(MorningStart) /\ [][StabNext]_vars


\* ------------------------------------------------------------ the daily story
\* load_today and generate_daily_story on every state of today's file:
\* missing, unreadable, wrongly shaped, and every list of up to
\* MaxStorySamples samples (2048000 KiB are 2000 MB, 2560000 KiB 2500 MB)
StorySample(cpu, ram, net) ==
  [ts |-> CtlStart, cpu |-> cpu, ram |-> ram, net_bytes_delta |-> net,
   top_app |-> None, battery_event |-> None]
StorySamples ==
  {StorySample(55, 40, 0), StorySample(95, 40, 2560000),
   StorySample(75, 40, 0), StorySample(70, 90, 2048000),
   StorySample(30, 95, 0), StorySample(10, 10, 0)}
StoryFiles ==
  {SamplesFile(l) : l \in UNION {[1..n -> StorySamples] :
                                   n \in 0..MaxStorySamples}}
  \cup {ObjectFile, ScalarFile, ArrayFile, InvalidFile}

StoryInit ==
  /\ InitCore(CtlStart)
  /\ health_log = <<>>
  /\ \/ daily_files = <<>>
     \/ \E f \in StoryFiles : daily_files = [d \in {Today(CtlStart)} |-> f]
  /\ downloads = EmptyDownloads
  /\ query = None /\ result = None
  /\ self_cleanup_days = SINGLE_RULE_DAYS
  /\ scan = NoScan /\ pending = None
\* one query in each behaviour
StoryNext ==
  \/ query = None /\ UiLoadToday
  \/ query = None /\ UiGenerateDailyStory
SpecStory == StoryInit /\ [][StoryNext]_vars


\* ---------------------------------------------------------------- the cleanup
\* run_cleanup on every Downloads directory of up to MaxFiles names: an old
\* file, the same file locked, a file exactly cleanup_days old, a file that
\* cannot be stat-ed and a folder; and on a path that does not exist
CleanFiles ==
  {File("old.zip", TRUE, Some(8), TRUE), File("old.zip", TRUE, Some(8), FALSE),
   File("new.pdf", TRUE, Some(7), TRUE), File("gone.tmp", TRUE, None, TRUE),
   File("folder", FALSE, Some(30), TRUE)}
CleanListings ==
  {l \in UNION {[1..n -> CleanFiles] : n \in 0..MaxFiles} :
     \A i, j \in 1..Len(l) : i # j => l[i].name # l[j].name}
CleanDays == {0, 7}

CleanInit ==
  /\ InitCore(CtlStart)
  /\ health_log = <<>> /\ daily_files = <<>>
  /\ \/ downloads = [exists |-> FALSE, files |-> <<>>]
     \/ \E l \in CleanListings : downloads = [exists |-> TRUE, files |-> l]
  /\ query = None /\ result = None
  /\ self_cleanup_days = SINGLE_RULE_DAYS
  /\ scan = NoScan /\ pending = None
\* one run in each behaviour
CleanNext ==
  \E cleanup_days \in CleanDays, fails \in CleanupFailures :
    query = None /\ UiRunCleanupNow(cleanup_days, fails)
SpecClean == CleanInit /\ [][CleanNext]_vars

\* ------------------------------- the battery log when its file may not read
\* one call of append_daily_entry, with a log file that may be unreadable or
\* corrupt at the moment of the call, or not writable
LogAppend(readable, writable, date_str, design, full) ==
  /\ Len(appends) < MaxAppends
  /\ AppendDailyEntryAfterRead(readable, writable, date_str, design, full)
  /\ UNCHANGED <<mon_state, ctl_shared, other_threads, daily_files,
                 sched_state, local_vars, pc, proc_history, proc_pushed,
                 failed_ticks, ticks, host>>
  /\ UNCHANGED ui_state
LogNext ==
  \E d \in BattDates, design \in BattDesign, full \in BattFull,
     readable \in BOOLEAN, writable \in BOOLEAN :
    LogAppend(readable, writable, d, design, full)
SpecLog == BattInit /\ [][LogNext]_vars

\* --------------------------------------- file writes as readers see them
\* what the worker leaves unchanged while it writes one of its two files
WriteFrame ==
  <<mon_state, ctl_shared, other_threads, sched_state, local_vars,
    proc_history, proc_pushed, failed_ticks, ticks, host, downloads, query,
    result, self_cleanup_days, scan>>

\* append_sample up to open(fname, "w"): the file is read, the sample
\* appended in memory, and opening for writing truncates the file, which
\* no longer parses until json.dump has written it
WSaveOpen ==
  LET fname == Today(clock)
      data == LoadedForAppend(fname)
      sample == DailySample(Get(sys_info), Get(net_info), now_ts)
  IN
  /\ pc = "save"
  /\ IF AppendSampleRaises(fname)
     THEN pc' = "cleanup" /\ UNCHANGED <<daily_files, pending>>
     ELSE /\ pending' = Some(SamplesFile(Append(data.samples, sample)))
          /\ daily_files' = [d \in DOMAIN daily_files \cup {fname} |->
                               IF d = fname THEN InvalidFile
                               ELSE daily_files[d]]
          /\ pc' = "saving"
  /\ UNCHANGED <<WriteFrame, health_log, appends>>

\* json.dump(data, f, indent=2) and the close of the file
WSaveDump ==
  /\ pc = "saving"
  /\ daily_files' = [daily_files EXCEPT ![Today(clock)] = Get(pending)]
  /\ pending' = None
  /\ pc' = "cleanup"
  /\ UNCHANGED <<WriteFrame, health_log, appends>>

\* append_daily_entry up to open(self.health_log_fname, "w") in _save_log:
\* the truncated file no longer parses, so that _load_log reads it as []
WBatteryLogOpen ==
  LET b == Get(bat_info)
      due == Truthy(b.design_capacity_mwh) /\ Truthy(b.full_charge_capacity_mwh)
      entry == Entry(Today(clock), b.design_capacity_mwh,
                     b.full_charge_capacity_mwh, b.cycle_count, b.voltage_mv)
  IN
  /\ pc = "batlog"
  /\ IF due
     THEN /\ pending' = Some(SortByDate(Upsert(health_log, entry)))
          /\ health_log' = <<>>
          /\ appends' = Append(appends, entry)
          /\ pc' = "batlogging"
     ELSE pc' = "merge" /\ UNCHANGED <<health_log, appends, pending>>
  /\ UNCHANGED <<WriteFrame, daily_files>>

\* json.dump(logs, f, indent=2) and the close of the file
WBatteryLogDump ==
  /\ pc = "batlogging"
  /\ health_log' = Get(pending)
  /\ pending' = None
  /\ pc' = "merge"
  /\ UNCHANGED <<WriteFrame, daily_files, appends>>

\* the worker loop with its two file writes in two steps each, and one
\* read of a store by the user interface at any moment
WriteNext ==
  \/ WLoopTest(WriteTicks, CtlHosts)
  \/ WSampleSys("ok")
  \/ WSampleBat(FALSE)
  \/ WSampleDisk(FALSE)
  \/ WSampleNet(FALSE)
  \/ WProcHistory
  \/ WBatteryLogOpen
  \/ WBatteryLogDump
  \/ WMerge
  \/ WAcquire
  \/ WPublish
  \/ WSaveOpen
  \/ WSaveDump
  \/ WCleanup(FALSE)
  \/ WSleep(0)
  \/ query = None /\ UiLoadToday
  \/ query = None /\ UiGenerateDailyStory
  \/ \E months \in PredMonths : query = None /\ UiPredict(months, TRUE, FALSE)
SpecWrite == InitAt(MorningStart) /\ [][WriteNext]_vars

\* ----------------------------- get_stability_scores while the worker runs
\* the worker loop over hosts with different top processes, and one call of
\* get_stability_scores that begins at any moment
ScanNext ==
  \/ WLoopTest(ScanTicks, StabHosts)
  \/ WSampleSys("ok")
  \/ WSampleBat(FALSE)
  \/ WSampleDisk(FALSE)
  \/ WSampleNet(FALSE)
  \/ WProcHistory
  \/ WBatteryLog(FALSE)
  \/ WMerge
  \/ WAcquire
  \/ WPublish
  \/ WSaveSample(FALSE)
  \/ WCleanup(FALSE)
  \/ WSleep(0)
  \/ \E order \in KeyOrders(DOMAIN proc_history) : ScanBegin(order)
  \/ ScanNextItem
SpecScan == InitAt(MorningStart) /\ [][ScanNext]_vars

\* ------------------------------------------- the top applications of a day
\* today's file after six ticks with six different top applications, or a
\* part of them, followed by up to MaxExtraApps ticks with any of them, with
\* no top application or with an empty name
AppSample(app) ==
  [ts |-> CtlStart, cpu |-> 10, ram |-> 10, net_bytes_delta |-> 0,
   top_app |-> app, battery_event |-> None]
DayApps ==
  <<"chrome.exe", "code.exe", "svchost.exe", "explorer.exe", "python.exe",
    "teams.exe">>
ExtraApps == {Some(DayApps[i]) : i \in 1..Len(DayApps)} \cup {None, Some("")}
AppDays ==
  {[i \in 1..k |-> AppSample(Some(DayApps[i]))] \o [i \in 1..Len(e) |-> AppSample(e[i])] :
     k \in 0..Len(DayApps),
     e \in UNION {[1..n -> ExtraApps] : n \in 0..MaxExtraApps}}
TopInit ==
  /\ InitCore(CtlStart)
  /\ health_log = <<>>
  /\ \E l \in AppDays : daily_files = [d \in {Today(CtlStart)} |-> SamplesFile(l)]
  /\ downloads = EmptyDownloads
  /\ query = None /\ result = None
  /\ self_cleanup_days = SINGLE_RULE_DAYS
  /\ scan = NoScan /\ pending = None
\* one query in each behaviour
TopNext == query = None /\ UiGenerateDailyStory
SpecTop == TopInit /\ [][TopNext]_vars

\* ------------------------------------------ alerts in ticks that may fail
\* the worker loop on a host that stays above the CPU threshold, where the
\* battery, disk or network sample of any tick may raise
AlertNext ==
  \/ WLoopTest(AlertTicks, CtlHosts)
  \/ WSampleSys("ok")
  \/ \E fail \in BOOLEAN : WSampleBat(fail)
  \/ \E fail \in BOOLEAN : WSampleDisk(fail)
  \/ \E fail \in BOOLEAN : WSampleNet(fail)
  \/ WProcHistory
  \/ WBatteryLog(FALSE)
  \/ WMerge
  \/ WAcquire
  \/ WPublish
  \/ WSaveSample(FALSE)
  \/ WCleanup(FALSE)
  \/ WExcept
  \/ WSleep(0)
SpecAlert == InitAt(MorningStart) /\ [][AlertNext]_vars

\* ------------------------------- ticks whose metric sources are unavailable
\* the worker loop over hosts without a battery, without a capacity report,
\* and with both
SourceInit == InitAt(MorningStart)
SourceNext ==
  \/ WLoopTest(SourceTicks, SourceHosts)
  \/ WSampleSys("ok")
  \/ WSampleBat(FALSE)
  \/ WSampleDisk(FALSE)
  \/ WSampleNet(FALSE)
  \/ WProcHistory
  \/ \E fail \in BOOLEAN : WBatteryLog(fail)
  \/ WMerge
  \/ WAcquire
  \/ WPublish
  \/ WSaveSample(FALSE)
  \/ WCleanup(FALSE)
  \/ WSleep(0)
SpecSource == SourceInit /\ [][SourceNext]_vars

\* ------------------------------------------- the readers beside the worker
\* the worker loop, with get_latest, get_battery_prediction,
\* get_stability_scores and generate_daily_story called at any moment
ReadNext ==
  \/ WLoopTest(ReadTicks, CtlHosts)
  \/ WSampleSys("ok")
  \/ WSampleBat(FALSE)
  \/ WSampleDisk(FALSE)
  \/ WSampleNet(FALSE)
  \/ WProcHistory
  \/ WBatteryLog(FALSE)
  \/ WMerge
  \/ WAcquire
  \/ WPublish
  \/ WSaveSample(FALSE)
  \/ WCleanup(FALSE)
  \/ WSleep(0)
  \/ \E r \in Readers : GetLatestAcquire(r)
  \/ \E r \in Readers : GetLatestReturn(r)
  \/ \E months \in PredMonths, readable \in BOOLEAN, numpy_nan \in BOOLEAN :
       UiGetBatteryPrediction(months, readable, numpy_nan)
  \/ \E order \in KeyOrders(DOMAIN proc_history) : UiGetStabilityScores(order)
  \/ UiGenerateDailyStory
SpecRead == InitAt(MorningStart) /\ [][ReadNext]_vars

\* -------------------------------------- the user sets the cleanup interval
DaysInputs ==
  {PyInt(-1), PyInt(0), PyInt(7), PyInt(30), PyBool(TRUE),
   PyFloat(37), PyFloat(-5), PyFloat(-20),
   PyStr(<<"7">>), PyStr(<<" ", "1", "0">>), PyStr(<<"-", "3">>),
   PyStr(<<"3", ".", "5">>), PyStr(<<>>), PyNone}
DaysInit == InitAt(CtlStart)
DaysNext ==
  \/ \E days \in DaysInputs, log_raises \in BOOLEAN :
       UiSetCleanupDays(days, log_raises)
  \/ UiGetCleanupDays
SpecDays == DaysInit /\ [][DaysNext]_vars


\* ================================================================== claims
\* the number of trailing readings of s strictly above the threshold
RECURSIVE TrailingRun(_, _)
TrailingRun(s, threshold) ==
  IF s = <<>> THEN 0
  ELSE IF Last(s) > threshold
       THEN 1 + TrailingRun(SubSeq(s, 1, Len(s) - 1), threshold)
       ELSE 0

CpuReadings == Values(pushed.cpu)
RamReadings == Values(pushed.ram)

\* the fields of a published snapshot
SnapshotFields ==
  {"cpu", "ram", "top_cpu", "cpu_hits", "ram_hits", "cpu_history",
   "ram_history", "peak_cpu", "peak_cpu_time", "peak_ram", "peak_ram_time",
   "battery", "disk", "network", "timestamp", "tick"}

\* every part of snapshot s was sampled in the same iteration of the loop
SingleTick(s) ==
  /\ DOMAIN s = SnapshotFields
  /\ s.battery.tick = s.tick
  /\ s.disk.tick = s.tick
  /\ s.network.tick = s.tick
  /\ s.battery.timestamp = s.timestamp
  /\ s.disk.timestamp = s.timestamp
  /\ s.network.timestamp = s.timestamp
  /\ Last(s.cpu_history)[1] = s.timestamp
  /\ Last(s.ram_history)[1] = s.timestamp
  /\ Last(s.disk.history)[1] = s.timestamp

\* C1: what get_latest() returns, and what it could return at any moment,
\* is the not-ready value or a complete snapshot all of whose parts come
\* from one tick.
C1_AtomicSnapshot ==
  /\ latest # None => SingleTick(Get(latest))
  /\ \A r \in Readers : rd_ret[r] # None => SingleTick(Get(rd_ret[r]))

\* a reader holds the snapshot of an earlier tick while the worker has
\* already resampled part of its locals for the next one
C1_Witness ==
  \E r \in Readers :
    /\ rd_pc[r] = "returned" /\ rd_ret[r] # None
    /\ pc = "disk"
    /\ Get(sys_info).tick > Get(rd_ret[r]).tick
    /\ Get(disk_info).tick = Get(rd_ret[r]).tick

C3_AlertIffLongRun ==
  pushed.cpu # <<>> =>
    /\ fired.cpu <=> TrailingRun(CpuReadings, CPU_THRESHOLD) >= CONSECUTIVE_LIMIT
    /\ fired.ram <=> TrailingRun(RamReadings, RAM_THRESHOLD) >= CONSECUTIVE_LIMIT

\* the alert fires again on the reading after the CONSECUTIVE_LIMIT-th
C3_Witness ==
  /\ fired.cpu /\ ~fired.ram
  /\ TrailingRun(CpuReadings, CPU_THRESHOLD) = CONSECUTIVE_LIMIT + 1

\* C4: cpu_hits is the length of the trailing run of CPU readings strictly
\* above CPU_THRESHOLD and ram_hits that of the RAM readings above
\* RAM_THRESHOLD, each counter following its own metric only.
C4_HitsAreTrailingRuns ==
  /\ cpu_hits = TrailingRun(CpuReadings, CPU_THRESHOLD)
  /\ ram_hits = TrailingRun(RamReadings, RAM_THRESHOLD)

\* CPU breaches twice while RAM sits exactly on its threshold
C4_Witness ==
  /\ cpu_hits = 2 /\ ram_hits = 0
  /\ Len(RamReadings) >= 3
  /\ Last(RamReadings) = RAM_THRESHOLD
  /\ RamReadings[Len(RamReadings) - 2] > RAM_THRESHOLD

\* C5: every bounded history holds the most recent min(k, HISTORY_LEN) of the
\* k entries pushed onto it, in push order.
C5_HistoriesBounded ==
  /\ cpu_history = LastN(pushed.cpu, HISTORY_LEN)
  /\ ram_history = LastN(pushed.ram, HISTORY_LEN)
  /\ disk_history = LastN(pushed.disk, HISTORY_LEN)
  /\ history_down = LastN(pushed.down, HISTORY_LEN)
  /\ history_up = LastN(pushed.up, HISTORY_LEN)
  /\ DOMAIN proc_history = DOMAIN proc_pushed
  /\ \A k \in DOMAIN proc_history :
       /\ proc_history[k] = LastN(proc_pushed[k], HISTORY_LEN)
       /\ Len(proc_history[k]) <= HISTORY_LEN
  /\ \A h \in {cpu_history, ram_history, disk_history, history_down,
               history_up} : Len(h) <= HISTORY_LEN

\* entries were evicted from the monitors' buffers and from a process list
C5_Witness ==
  /\ Len(pushed.cpu) > HISTORY_LEN + 1
  /\ Len(pushed.up) > HISTORY_LEN
  /\ \E k \in DOMAIN proc_history : Len(proc_pushed[k]) > HISTORY_LEN

PeakIsMaxPushed ==
  /\ pushed.cpu # <<>> => peak_cpu = SeqMax(Values(pushed.cpu))
  /\ pushed.ram # <<>> => peak_ram = SeqMax(Values(pushed.ram))
  /\ pushed.down # <<>> => peak_download = SeqMax(Values(pushed.down))
  /\ pushed.up # <<>> => peak_upload = SeqMax(Values(pushed.up))

PeakNonDecreasing ==
  /\ peak_cpu' >= peak_cpu /\ peak_ram' >= peak_ram
  /\ peak_download' >= peak_download /\ peak_upload' >= peak_upload

\* C6: each peak never decreases and is the maximum of all values pushed,
\* evicted ones included.
C6_PeakMonotoneMax == []PeakIsMaxPushed /\ [][PeakNonDecreasing]_vars

\* the peaks are values that have left the buffers
C6_Witness ==
  /\ Len(cpu_history) = HISTORY_LEN /\ Len(history_down) = HISTORY_LEN
  /\ \A i \in 1..Len(cpu_history) : cpu_history[i][2] < peak_cpu
  /\ \A i \in 1..Len(history_down) : history_down[i][2] < peak_download

\* C7: the worker loop calls the cleanup job at most once per calendar date;
\* a cleanup that failed is not called again that day.
C7_CleanupOncePerDate ==
  \A i, j \in DOMAIN cleanup_calls :
    i # j => cleanup_calls[i].date # cleanup_calls[j].date

\* what does hold: a call that returned is the last call of its date, and
\* every call is made in the cleanup minute
CleanupOncePerDateUnlessRaised ==
  /\ \A i, j \in DOMAIN cleanup_calls :
       (i < j /\ cleanup_calls[i].date = cleanup_calls[j].date)
         => cleanup_calls[i].raised
  /\ \A i \in DOMAIN cleanup_calls :
       /\ cleanup_calls[i].hour = CLEANUP_HOUR
       /\ cleanup_calls[i].minute = CLEANUP_MINUTE

\* C8: a get_latest() made before the first publication returns the
\* not-ready value; one made after it returns the snapshot published last.
C8_NotReadyThenLatest ==
  \A r \in Readers :
    rd_pc[r] = "returned" =>
      IF rd_seen[r] = 0 THEN rd_ret[r] = None
      ELSE rd_ret[r] = Some(published[rd_seen[r]])

\* a call returned the second snapshot published
C8_Witness ==
  \E r \in Readers :
    /\ rd_pc[r] = "returned" /\ rd_seen[r] = 2
    /\ rd_ret[r] # None /\ Get(rd_ret[r]).tick = 2

\* the entry of the latest call made for the date of log entry e
LatestCallFor(d) ==
  appends[CHOOSE k \in DOMAIN appends :
            /\ appends[k].date = d
            /\ \A m \in DOMAIN appends : appends[m].date = d => m <= k]

\* C9: the log is strictly ascending by date (so one entry per date), holds
\* an entry for every date a call was made for, and that entry is the one of
\* the latest call for the date.
C9_UpsertSorted ==
  /\ \A i, j \in DOMAIN health_log :
       i < j => DateLess(health_log[i].date, health_log[j].date)
  /\ \A k \in DOMAIN appends :
       \E i \in DOMAIN health_log : health_log[i].date = appends[k].date
  /\ \A i \in DOMAIN health_log :
       health_log[i] = LatestCallFor(health_log[i].date)

\* two calls for one date with different capacities, among other dates
C9_Witness ==
  /\ Len(health_log) = 2
  /\ \E k, m \in DOMAIN appends :
       /\ k < m /\ appends[k].date = appends[m].date
       /\ appends[k].full_mwh # appends[m].full_mwh
       /\ appends[m].date = health_log[1].date
       /\ \E n \in DOMAIN appends : k < n /\ n < m

\* the entries logged for design 50000 mWh and full charge 45000 mWh
Entries50000_45000 ==
  {i \in DOMAIN health_log :
     /\ health_log[i].design_mwh = Some(50000)
     /\ health_log[i].full_mwh = Some(45000)}

\* C10 as stated: the wear stored for 50000 / 45000 is 5.0 %
C10_WearIsFive ==
  \A i \in Entries50000_45000 : health_log[i].wear_pct = Some(5000)

\* C10: the wear stored for design 50000 and full charge 45000 mWh is
\* round((1 - 45000/50000) * 100, 3) = 10.0 % (10000 thousandths).
C10_WearIsTen ==
  \A i \in Entries50000_45000 : health_log[i].wear_pct = Some(10000)

\* such an entry is in the log
C10_Witness == Entries50000_45000 # {}

\* --------------------------------------------------------------- predict
\* the last query was op and has returned
Asked(op) == query # None /\ Get(query).op = op /\ result # None

\* the log the last prediction query loaded
AskedLog == LoadLog(Get(query).readable)

\* the positions of the qualifying entries of a log of objects: those with
\* both a wear % and a design capacity
QualifyingIn(logs) ==
  {i \in 1..Len(logs) :
     /\ logs[i].wear_pct # None
     /\ logs[i].design_mwh # None /\ Get(logs[i].design_mwh) # 0}

AllObjects(logs) == \A i \in 1..Len(logs) : IsObject(logs[i])

PredictionFields ==
  {"weekly_degradation_percent", "projected_health_percent", "health_score",
   "trend_slope_wear_per_day", "notes", "entries"}

\* C12 as stated: every result of get_battery_prediction, for every state
\* of the battery log, contains all six fields.
C12_AlwaysSixFields ==
  Asked("get_battery_prediction")
  => PredictionFields \subseteq DOMAIN Get(result)

\* what does hold: the six fields are there for every log whose elements
\* are objects and whose first qualifying entry, if there are min_points of
\* them, carries a date that parses
FirstQualifyingParses(logs) ==
  Cardinality(QualifyingIn(logs)) >= MIN_POINTS
  => Parses(logs[CHOOSE i \in QualifyingIn(logs) :
                   \A j \in QualifyingIn(logs) : i <= j])
SixFieldsForParsableLogs ==
  (/\ Asked("get_battery_prediction")
   /\ AllObjects(AskedLog)
   /\ FirstQualifyingParses(AskedLog))
  => PredictionFields \subseteq DOMAIN Get(result)

\* C13: whenever predict() fits a slope, the projected health % lies in
\* [0,100] (projected wear below 0 or above 100 included) and the health
\* score is an integer in [0,100], the projected health % rounded.
C13_HealthClamped ==
  (/\ Asked("predict")
   /\ ~Get(result).raised
   /\ Get(result).value.trend_slope_wear_per_day # None)
  => LET r == Get(result).value
         pct == Get(r.health_exact)
         score == Get(r.health_score)
     IN  /\ 0 <= pct[1] /\ pct[1] <= 100 * pct[2]
         /\ 0 <= Get(r.projected_health_percent)
         /\ Get(r.projected_health_percent) <= 10000
         /\ score \in 0..100
         \* no integer is nearer to pct than score
         /\ 2 * (score * pct[2] - pct[1]) <= pct[2]
         /\ 2 * (pct[1] - score * pct[2]) <= pct[2]

\* a rising wear whose projection exceeds 100 %: the health is clamped to 0
C13_Witness ==
  /\ Asked("predict")
  /\ ~Get(result).raised
  /\ Get(result).value.trend_slope_wear_per_day # None
  /\ ~Get(result).value.fit_nan
  /\ Get(Get(result).value.trend_slope_wear_per_day)[1] > 0
  /\ Get(query).months = 6
  /\ Get(result).value.health_score = Some(0)

C15_AbsentBelowThree ==
  Asked("score_process")
  => IF Len(Get(query).history) < 3
     THEN /\ Get(result).score = None
          /\ Get(result).notes = "Insufficient data."
     ELSE Get(result).score # None

\* a history of two samples got no score
C15_Witness ==
  /\ Asked("score_process")
  /\ Len(Get(query).history) = 2
  /\ Get(result).score = None

\* --------------------------------------------------- get_stability_scores
\* C16 as stated: in the list get_stability_scores returns every entry with
\* a present score comes before every entry with an absent score, and the
\* entries with a present score are in descending order of score.
C16_PresentFirstDescending ==
  Asked("get_stability_scores")
  => LET l == Get(result) IN
     \A i, j \in 1..Len(l) :
       i < j => /\ l[i].score = None => l[j].score = None
                /\ (l[i].score # None /\ l[j].score # None)
                   => Get(l[i].score) >= Get(l[j].score)

\* what the code does: the entries with an absent score come first, then
\* those with a present score in descending order
AbsentFirstDescending ==
  Asked("get_stability_scores")
  => LET l == Get(result) IN
     \A i, j \in 1..Len(l) :
       i < j => /\ l[j].score = None => l[i].score = None
                /\ (l[i].score # None /\ l[j].score # None)
                   => Get(l[i].score) >= Get(l[j].score)

\* ------------------------------------------------------------ DailyStory
\* the average of the field of the samples of the story is above limit
StoryAvgAbove(field, limit) ==
  LET l == Get(result).samples IN
  /\ l # <<>>
  /\ Sum([i \in 1..Len(l) |-> l[i][field]]) > limit * Len(l)

\* some sample of the story has a value of the field above limit
StoryPeakAbove(field, limit) ==
  \E i \in 1..Len(Get(result).samples) : Get(result).samples[i][field] > limit

\* C17: the daily health score is 100, minus 20 if average CPU or average
\* RAM > 70, minus 20 if peak CPU or peak RAM > 90, minus 10 if the total
\* network is > 2000 MB (each penalty once, comparisons strict); the verdict
\* is positive when score > 80, neutral when 60 < score <= 80 and warning
\* otherwise; for average 75, peak 95 and 2500 MB the score is 50 and the
\* verdict is warning.
C17_DailyHealthScore ==
  (Asked("generate_daily_story") /\ ~Get(result).failed)
  => LET l == Get(result).samples
         score == Get(result).summary.health_score
         rec == Get(result).summary.rec
         net_kib == Sum([i \in 1..Len(l) |-> l[i].net_bytes_delta])
     IN  /\ score =
              100
              - (IF StoryAvgAbove("cpu", 70) \/ StoryAvgAbove("ram", 70)
                 THEN 20 ELSE 0)
              - (IF StoryPeakAbove("cpu", 90) \/ StoryPeakAbove("ram", 90)
                 THEN 20 ELSE 0)
              - (IF net_kib > 2000 * 1024 THEN 10 ELSE 0)
         /\ score > 80 => rec = "running very smoothly"
         /\ (60 < score /\ score <= 80)
            => rec = "decent, but a cleanup may help"
         /\ score <= 60 => rec = "high load detected"
         /\ (/\ Len(l) = 3
             /\ l[1].cpu + l[2].cpu + l[3].cpu = 3 * 75
             /\ StoryPeakAbove("cpu", 94) /\ ~StoryPeakAbove("cpu", 95)
             /\ net_kib = 2500 * 1024)
            => score = 50 /\ rec = "high load detected"

\* the story of a day with cpu 55, 95 and 75 % and 2500 MB of traffic
C17_Witness ==
  /\ Asked("generate_daily_story")
  /\ ~Get(result).failed
  /\ Len(Get(result).samples) = 3
  /\ Get(result).samples[1].cpu = 55
  /\ Get(result).samples[2].cpu = 95
  /\ Get(result).samples[3].cpu = 75
  /\ Get(result).summary.net_total_kib = 2500 * 1024
  /\ Get(result).summary.health_score = 50

\* ------------------------------------------------------------ load_today
\* today's file is missing, unreadable or corrupt, or holds JSON of the
\* wrong shape
TodayFile == daily_files[Today(clock)]
TodayMissingOrUnreadable ==
  \/ Today(clock) \notin DOMAIN daily_files
  \/ TodayFile.json = "invalid"
TodayWronglyShaped ==
  /\ Today(clock) \in DOMAIN daily_files
  /\ TodayFile.json \in {"object", "scalar", "array"}

\* load_today gave an empty sample list, generate_daily_story the story
\* of an empty list
EmptyDayResult ==
  /\ Asked("load_today")
     => /\ Get(result).json \in {"samples", "object"}
        /\ Get(result).samples = <<>>
  /\ Asked("generate_daily_story")
     => /\ ~Get(result).failed
        /\ Get(result).samples = <<>>
        /\ Get(result).summary = Generate(Aggregated(<<>>))

\* C18 as stated: when today's file is missing, unreadable or holds corrupt
\* or wrongly shaped content, load_today / generate_daily_story yield an
\* empty sample list (and the summary of an empty list), not an error result.
C18_NeverAnErrorResult ==
  (TodayMissingOrUnreadable \/ TodayWronglyShaped) => EmptyDayResult

\* what does hold: a missing file and a file that cannot be read or parsed
\* yield the empty sample list
EmptyForMissingOrUnreadable == TodayMissingOrUnreadable => EmptyDayResult

\* ---------------------------------------------------------- append_sample
\* the sample list of the file of date d, empty when there is no file
SamplesOn(files, d) == IF d \in DOMAIN files THEN files[d].samples ELSE <<>>

\* the step is the worker's append_sample of the tick's daily sample
SaveStep == pc = "save" /\ pc' = "cleanup"

C20_NeverRaises == Asked("run_cleanup") => ~Get(result).raised

\* what does hold: a file that cannot be stat-ed or deleted is reported as
\* skipped and stays, and the call returns unless listing the directory,
\* writing the report or logging fails
SkipsFilesThatFail ==
  (Asked("run_cleanup") /\ Get(query).fails = "none")
  => /\ ~Get(result).raised
     /\ \A i \in 1..Len(Get(query).listing.files) :
          LET f == Get(query).listing.files[i] IN
          (f.age = None \/ ~f.removable)
          => /\ \E k \in 1..Len(Get(result).value.skipped) :
                  Get(result).value.skipped[k] = f.name
             /\ \E k \in 1..Len(downloads.files) : downloads.files[k] = f

\* the names of the sequence l, as a set
NameSet(l) == {l[k] : k \in 1..Len(l)}

\* C21: the result of a cleanup run partitions the directory listing: every
\* name listed is in exactly one of deleted and skipped; deleted holds
\* exactly the regular files whose age is strictly greater than cleanup_days
\* and whose removal succeeded (they are gone), and every directory, every
\* file not older than the limit and every file whose age or removal failed
\* is in skipped and still exists.
C21_ResultPartitionsListing ==
  (/\ Asked("run_cleanup")
   /\ ~Get(result).raised
   /\ Get(query).listing.exists)
  => LET listed == Get(query).listing.files
         days == Get(query).cleanup_days
         deleted == NameSet(Get(result).value.deleted)
         skipped == NameSet(Get(result).value.skipped)
         left == {downloads.files[k] : k \in 1..Len(downloads.files)}
     IN  /\ deleted \cup skipped = NameSet(Names(listed))
         /\ deleted \cap skipped = {}
         /\ Len(Get(result).value.deleted) + Len(Get(result).value.skipped)
            = Len(listed)
         /\ \A i \in 1..Len(listed) :
              LET f == listed[i] IN
              IF f.isfile /\ f.age # None /\ Get(f.age) > days /\ f.removable
              THEN f.name \in deleted /\ f \notin left
              ELSE f.name \in skipped /\ f \in left

\* a run with a limit of 7 days returned: it deleted a file of 8 days and
\* skipped a file of exactly 7 days
C21_Witness ==
  /\ Asked("run_cleanup")
  /\ ~Get(result).raised
  /\ Get(query).cleanup_days = 7
  /\ Get(result).value.deleted = <<"old.zip">>
  /\ Get(result).value.skipped = <<"new.pdf">>
  /\ Len(downloads.files) = 1

\* set_cleanup_days was called with an integer that is not negative
GivenNaturalInt == Get(query).days.type = "int" /\ Get(query).days.v >= 0

\* C22: set_cleanup_days(d) succeeds exactly when d is an integer >= 0 and
\* then stores d; for a negative or non-integer d it reports failure and
\* leaves the stored value as it was; get_cleanup_days() returns the stored
\* value, which is always an integer >= 0.
C22_SetSucceedsExactlyForNaturals ==
  /\ self_cleanup_days \in Nat
  /\ Asked("get_cleanup_days") => Get(result).value = self_cleanup_days
  /\ Asked("set_cleanup_days") =>
       IF GivenNaturalInt
       THEN /\ Get(result).value = TRUE
            /\ self_cleanup_days = Get(query).days.v
       ELSE /\ Get(result).value = FALSE
            /\ self_cleanup_days = Get(query).before

\* what does hold: the stored value is always an integer >= 0 and is what
\* get_cleanup_days returns; a call that int() rejects or that converts to a
\* negative number reports failure and changes nothing
StoredDaysNeverNegative ==
  /\ self_cleanup_days \in Nat
  /\ Asked("get_cleanup_days") => Get(result).value = self_cleanup_days
  /\ (Asked("set_cleanup_days")
      /\ (IntOf(Get(query).days).raised \/ IntOf(Get(query).days).value < 0))
     => /\ Get(result).value = FALSE
        /\ self_cleanup_days = Get(query).before

\* everything a tick of the worker reads or writes, and where the worker is
TickState == <<mon_state, lock, latest, published, stores, sched_state,
               local_vars, pc, proc_history, proc_pushed, failed_ticks,
               ticks, host>>

\* C23: the stop flag takes effect only at a tick boundary: clearing the
\* flag changes nothing of a tick in progress, the worker leaves the loop
\* only where it tests the flag and finds it cleared, and having found it
\* cleared it begins no tick any more and stays terminated.
C23_StopOnlyAtTickBoundary ==
  [][/\ (running /\ ~running') => UNCHANGED TickState
     /\ (pc # "done" /\ pc' = "done") => (pc = "loop" /\ ~running)
     /\ (pc = "loop" /\ ~running /\ pc' # pc) => pc' = "done"
     /\ ticks' # ticks => (pc = "loop" /\ running)
     /\ pc = "done" => (pc' = "done" /\ ticks' = ticks)]_vars

\* stop() cleared the flag during the second tick, which goes on to publish
C23_Witness == ~running /\ pc = "swap" /\ ticks = 2 /\ stop_pc = "joining"

\* the battery of the host has no capacity report that yields both figures
NoCapacities(b) == b.design = None \/ b.full = None
\* the snapshot the worker publishes in this step
Publishing == pc = "swap" /\ pc' = "save"

\* C24: an unavailable source never aborts a tick: in a tick in which no
\* battery is present or the capacity report yields nothing, no step raises,
\* the battery-log step writes no entry, and the snapshot published has the
\* corresponding fields null.
C24_UnavailableSourceWritesNothing ==
  [][(~host'.bat.present \/ NoCapacities(host'.bat)) =>
       /\ pc' # "except"
       /\ (pc = "batlog" /\ pc' = "merge") => UNCHANGED <<health_log, appends>>
       /\ Publishing =>
            LET b == Get(latest').battery IN
            /\ ~host.bat.present => ~b.present /\ b.percent = None
            /\ host.bat.design = None => b.design_capacity_mwh = None
            /\ host.bat.full = None => b.full_charge_capacity_mwh = None]_vars

\* what does hold: the log is written only from a report with both
\* capacities; a tick without them publishes null fields and writes nothing
NoEntryWithoutCapacities ==
  [][/\ pc' # "except"
     /\ (pc = "batlog" /\ pc' = "merge" /\ NoCapacities(host.bat))
          => UNCHANGED <<health_log, appends>>
     /\ Publishing =>
          LET b == Get(latest').battery IN
          /\ ~host.bat.present => ~b.present /\ b.percent = None
          /\ host.bat.design = None => b.design_capacity_mwh = None
          /\ host.bat.full = None => b.full_charge_capacity_mwh = None]_vars

\* the worker (0) holds the lock only at its assignment of self.latest, a
\* reader only at its read of self.latest
HeldOnlyForTheReference ==
  /\ lock = Some(0) => pc = "swap"
  /\ \A r \in Readers : lock = Some(r) => rd_pc[r] = "locked"
  /\ lock \in {None, Some(0)} \cup {Some(r) : r \in Readers}

\* C25: the snapshot lock is held only for the reference swap in the worker
\* and the reference read in get_latest: whoever holds it is at that one
\* statement (not in a monitor sample, a persistence access, an analytics
\* computation or a sleep), and leaving the statement releases the lock.
C25_LockOnlyAroundReference ==
  [][/\ HeldOnlyForTheReference /\ HeldOnlyForTheReference'
     /\ (pc = "swap" /\ pc' # "swap") => (lock = Some(0) /\ lock' = None)
     /\ \A r \in Readers :
          (rd_pc[r] = "locked" /\ rd_pc'[r] # "locked")
            => (lock = Some(r) /\ lock' = None)]_vars

\* a reader holds the lock while the worker has its snapshot ready and waits
C25_Witness == lock = Some(1) /\ pc = "lock" /\ merged # None

\* a step of one of the reader operations
ReaderStep == rd_pc' # rd_pc \/ query' # query \/ result' # result
\* the state only the cadence thread may write
WrittenByWorker ==
  <<cpu_history, ram_history, history_down, history_up, disk_history,
    proc_history, cpu_hits, ram_hits, latest, health_log, daily_files>>

\* C26: the cadence thread is the sole writer: a step of get_latest,
\* get_battery_prediction, get_stability_scores or generate_daily_story
\* leaves the history buffers, the per-process history map, the alert
\* counters, the published snapshot, the battery health log and the daily
\* sample file unchanged, wherever the worker stands.
C26_ReadersWriteNothing ==
  [][ReaderStep => UNCHANGED WrittenByWorker]_vars

\* the daily story was asked for in the middle of the second tick, with a
\* snapshot published, a battery log and a daily file on disk, while a
\* get_latest has returned
C26_Witness ==
  /\ Asked("generate_daily_story")
  /\ pc = "merge" /\ ticks = 2
  /\ latest # None /\ health_log # <<>> /\ daily_files # <<>>
  /\ rd_pc[1] = "returned" /\ rd_ret[1] # None

\* the monitors sampled this tick: histories pushed and alerts evaluated
TickSampled ==
  /\ Get(sys_info).tick = ticks
  /\ Last(cpu_history) = <<now_ts, host.cpu>>
  /\ Last(ram_history) = <<now_ts, host.ram>>
  /\ cpu_hits = Get(merged).cpu_hits /\ ram_hits = Get(merged).ram_hits
\* every process of this tick's top list has its entry in the history map
TickProcsAppended ==
  \A i \in 1..Len(Get(sys_info).top_cpu) :
    LET key == ProcKey(Get(sys_info).top_cpu[i]) IN
    key \in DOMAIN proc_history /\ Last(proc_history[key]).ts = now_ts
\* today's file holds the sample of this tick
TickSamplePersisted ==
  \E i \in 1..Len(SamplesOn(daily_files, Today(clock))) :
    SamplesOn(daily_files, Today(clock))[i].ts = now_ts

\* C27: within every tick the history updates, the alert evaluation, the
\* per-process history append and the persistence of the tick's daily
\* sample are all completed when the snapshot of the tick is published.
C27_AllDoneBeforePublish ==
  [][Publishing =>
       TickSampled /\ TickProcsAppended /\ TickSamplePersisted]_vars

\* what does hold: the monitors and the process history are done when the
\* snapshot is published, and the sample is persisted after it: at the save
\* step the published snapshot is already the one of this tick
SampleSavedAfterPublish ==
  [][/\ Publishing => (TickSampled /\ TickProcsAppended /\ ~TickSamplePersisted)
     /\ SaveStep => (Get(latest).tick = ticks /\ TickSamplePersisted')]_vars

\* the sample the save step leaves at the end of today's file
SavedSample == Last(SamplesOn(daily_files', Today(clock)))
\* the network monitor reported traffic for this tick
TrafficReported == Get(net_info).down > 0 \/ Get(net_info).up > 0
\* the sample holds the tick's timestamp, CPU %, RAM % and top process name
RecordsTickFigures(s) ==
  /\ s.ts = now_ts
  /\ s.cpu = host.cpu /\ s.ram = host.ram
  /\ s.top_app = IF Get(sys_info).top_cpu = <<>> THEN None
                 ELSE Get(sys_info).top_cpu[1].name

\* C28: each sample the worker appends to the daily file records the tick's
\* timestamp, CPU %, RAM %, the network byte delta the network monitor
\* measured and the name of the top CPU process; the persisted
\* net_bytes_delta is non-zero in a tick in which the monitor reported
\* traffic.
C28_SampleRecordsNetworkDelta ==
  [][SaveStep =>
       /\ RecordsTickFigures(SavedSample)
       /\ TrafficReported => SavedSample.net_bytes_delta # 0]_vars

\* what does hold: the sample records timestamp, CPU %, RAM % and top
\* process name, and its net_bytes_delta is 0 whatever the monitor reported
SampleNetworkDeltaAlwaysZero ==
  [][SaveStep =>
       /\ RecordsTickFigures(SavedSample)
       /\ SavedSample.net_bytes_delta = 0]_vars

\* a history of three or more samples has been scored
ScoredHistory == Asked("score_process") /\ Len(Get(query).history) >= 3
\* the penalties of the breakdown are in thousandths
UnitRange == 0..1000
\* the weighted sum of the four penalties, in ten-thousandths
WeightedSum(b) ==
  5 * b.cpu_penalty + 3 * b.mem_penalty + b.io_penalty + b.net_penalty
\* the memory penalty is 0 when memory did not grow, and the combined
\* penalty is the weighted sum of the four
MemAndCombinedAsStated ==
  LET h == Get(query).history
      b == Get(result).breakdown
  IN  /\ Last(h).mem <= h[1].mem => b.mem_penalty = 0
      /\ 10 * b.combined_penalty <= WeightedSum(b)
      /\ WeightedSum(b) < 10 * b.combined_penalty + 10

\* C29: for every history of length >= 3 each of the four penalties lies in
\* [0,1], the memory penalty is 0 whenever the last memory value is not
\* greater than the first, and the combined penalty is 0.5 cpu + 0.3 mem +
\* 0.1 io + 0.1 net and lies in [0,1] as well.
C29_PenaltiesInUnitRange ==
  ScoredHistory
  => LET b == Get(result).breakdown IN
     /\ b.cpu_penalty \in UnitRange /\ b.mem_penalty \in UnitRange
     /\ b.io_penalty \in UnitRange /\ b.net_penalty \in UnitRange
     /\ b.combined_penalty \in UnitRange
     /\ MemAndCombinedAsStated

\* what does hold: no penalty exceeds 1, the cpu and memory penalties are
\* never negative, the memory and combined penalties are computed as stated,
\* and all five lie in [0,1] for a history without negative byte counts
PenaltiesAtMostOne ==
  ScoredHistory
  => LET b == Get(result).breakdown
         h == Get(query).history
     IN
     /\ b.cpu_penalty \in UnitRange /\ b.mem_penalty \in UnitRange
     /\ b.io_penalty <= 1000 /\ b.net_penalty <= 1000
     /\ b.combined_penalty <= 1000
     /\ MemAndCombinedAsStated
     /\ (\A i \in 1..Len(h) : h[i].io_read >= 0 /\ h[i].net_sent >= 0)
        => /\ b.io_penalty \in UnitRange /\ b.net_penalty \in UnitRange
           /\ b.combined_penalty \in UnitRange

\* the timestamp of the earliest of the pushes <<ts, value>> whose value is v
EarliestPushOf(pushes, v) ==
  pushes[CHOOSE i \in 1..Len(pushes) :
           /\ pushes[i][2] = v
           /\ \A j \in 1..(i - 1) : pushes[j][2] # v][1]
\* one step seen from one peak: p, t, l are the peak, its timestamp and the
\* pushes before the step, p2, t2, l2 after it
ChangesOnlyOnGreater(p, t, l, p2, t2, l2) ==
  IF l2 # l /\ Last(l2)[2] > p
  THEN p2 = Last(l2)[2] /\ t2 = Some(Last(l2)[1])
  ELSE p2 = p /\ t2 = t
\* the timestamp is the one of the earliest push that reached the peak
TimeOfEarliestPush(p, t, l) ==
  l # <<>> => /\ \E i \in 1..Len(l) : l[i][2] = p
              /\ t = Some(EarliestPushOf(l, p))
\* the same once a push has exceeded the initial peak 0; until then the
\* peak is 0 and it has no timestamp
TimeOfEarliestPushAboveZero(p, t, l) ==
  IF \E i \in 1..Len(l) : l[i][2] > 0
  THEN t = Some(EarliestPushOf(l, p))
  ELSE p = 0 /\ t = None

\* C30 as stated: the peak and its timestamp change only on a push strictly
\* greater than the stored peak, so the peak timestamp is always the
\* timestamp of the earliest push that reached the current peak value.
C30_PeakTimeOfEarliestPush ==
  /\ TimeOfEarliestPush(peak_cpu, peak_cpu_time, pushed.cpu)
  /\ TimeOfEarliestPush(peak_ram, peak_ram_time, pushed.ram)
  /\ TimeOfEarliestPush(peak_download, peak_download_time, pushed.down)
  /\ TimeOfEarliestPush(peak_upload, peak_upload_time, pushed.up)

\* C30 amended: the peak and its timestamp change only on a push strictly
\* greater than the stored peak and are left unchanged by any other step;
\* once a push has exceeded the initial peak 0 the timestamp is the one of
\* the earliest push that reached the current peak, and until then the peak
\* is 0 and has no timestamp.
C30_PeakChangesOnlyOnGreater ==
  /\ [](/\ TimeOfEarliestPushAboveZero(peak_cpu, peak_cpu_time, pushed.cpu)
        /\ TimeOfEarliestPushAboveZero(peak_ram, peak_ram_time, pushed.ram)
        /\ TimeOfEarliestPushAboveZero(peak_download, peak_download_time,
                                       pushed.down)
        /\ TimeOfEarliestPushAboveZero(peak_upload, peak_upload_time,
                                       pushed.up))
  /\ [][/\ ChangesOnlyOnGreater(peak_cpu, peak_cpu_time, pushed.cpu,
                                peak_cpu', peak_cpu_time', pushed.cpu')
        /\ ChangesOnlyOnGreater(peak_ram, peak_ram_time, pushed.ram,
                                peak_ram', peak_ram_time', pushed.ram')
        /\ ChangesOnlyOnGreater(peak_download, peak_download_time,
                                pushed.down, peak_download',
                                peak_download_time', pushed.down')
        /\ ChangesOnlyOnGreater(peak_upload, peak_upload_time, pushed.up,
                                peak_upload', peak_upload_time',
                                pushed.up')]_vars

\* the same CPU reading was pushed twice and the peak keeps the time of the
\* first push, while a network delta of 0 left the download peak at 0
\* without a timestamp
C30_Witness ==
  /\ Len(pushed.cpu) = 2
  /\ pushed.cpu[1][2] = pushed.cpu[2][2] /\ pushed.cpu[1][1] # pushed.cpu[2][1]
  /\ peak_cpu = pushed.cpu[1][2] /\ peak_cpu_time = Some(pushed.cpu[1][1])
  /\ pushed.down # <<>> /\ peak_download = 0 /\ peak_download_time = None

\* --------------------------------------------------------- top applications
\* the number of today's persisted ticks whose top app is the name app
TicksOnTop(samples, app) ==
  Cardinality({i \in 1..Len(samples) : samples[i].top_app = Some(app)})
\* the names that were top app in some tick of today
AppsSeen(samples) ==
  {Get(samples[i].top_app) : i \in {j \in 1..Len(samples) :
                                     samples[j].top_app \notin {None, Some("")}}}

\* C31: generate_daily_story reports at most 5 top applications, each a
\* different name with the number of today's persisted ticks in which it was
\* the top app, in non-increasing order of that number; no application left
\* out has a higher number than a listed one, none is left out while fewer
\* than 5 are listed, and ticks without a top app are not counted.
C31_TopFiveByTickCount ==
  (Asked("generate_daily_story") /\ ~Get(result).failed)
  => LET samples == Get(result).samples
         top == Get(result).summary.top_apps
         listed == {top[i][1] : i \in 1..Len(top)}
     IN  /\ Len(top) <= 5
         /\ Len(top) = Min(5, Cardinality(AppsSeen(samples)))
         /\ Cardinality(listed) = Len(top)
         /\ listed \subseteq AppsSeen(samples)
         /\ \A i \in 1..Len(top) : top[i][2] = TicksOnTop(samples, top[i][1])
         /\ \A i, j \in 1..Len(top) : i < j => top[i][2] >= top[j][2]
         /\ \A a \in AppsSeen(samples) \ listed, i \in 1..Len(top) :
              TicksOnTop(samples, a) <= top[i][2]

\* six applications were on top today, the sixth of them three times: it is
\* listed first and one of the others is left out
C31_Witness ==
  /\ Asked("generate_daily_story") /\ ~Get(result).failed
  /\ Cardinality(AppsSeen(Get(result).samples)) = 6
  /\ Len(Get(result).summary.top_apps) = 5
  /\ Get(result).summary.top_apps[1] = <<"teams.exe", 3>>

\* ------------------------------------------------- the published snapshots
\* the fields of the snapshot s agree with each other
SnapshotConsistent(s) ==
  /\ s.cpu_history # <<>> /\ Last(s.cpu_history)[2] = s.cpu
  /\ s.ram_history # <<>> /\ Last(s.ram_history)[2] = s.ram
  /\ s.peak_cpu >= s.cpu /\ s.peak_ram >= s.ram
  /\ \A i \in 1..Len(s.cpu_history) : s.peak_cpu >= s.cpu_history[i][2]
  /\ \A i \in 1..Len(s.ram_history) : s.peak_ram >= s.ram_history[i][2]
  /\ s.cpu_hits > 0 <=> s.cpu > CPU_THRESHOLD
  /\ s.ram_hits > 0 <=> s.ram > RAM_THRESHOLD

\* C32: in every published snapshot the last entry of cpu_history (resp.
\* ram_history) carries the snapshot's cpu (resp. ram), the peaks are at
\* least the current values and every value of the histories, and cpu_hits
\* (resp. ram_hits) is positive exactly when cpu (resp. ram) is above its
\* threshold.
C32_SnapshotConsistent ==
  /\ \A i \in 1..Len(published) : SnapshotConsistent(published[i])
  /\ latest # None => SnapshotConsistent(Get(latest))

\* a tick above the CPU threshold was published and then one below it, with
\* the counter back at 0 and the peak above the current value
C32_Witness ==
  /\ Len(published) = 2
  /\ published[1].cpu_hits = 1 /\ published[2].cpu_hits = 0
  /\ published[2].peak_cpu > published[2].cpu
  /\ latest = Some(published[2])

\* the reader r gets the answer of its get_latest in this step
Returns(r) == rd_pc[r] = "locked" /\ rd_pc'[r] = "returned"

TickOver == pc = "sleep"
\* the snapshot readers get carries the counters of the monitor
CountersPublished ==
  /\ latest # None
  /\ Get(latest).cpu_hits = cpu_hits /\ Get(latest).ram_hits = ram_hits

\* C34: every alert is visible to readers: when a tick has fired a CPU
\* (resp. RAM) alert, the snapshot published at the end of that tick has
\* cpu_hits (resp. ram_hits) at least the consecutive limit and the
\* published counters equal the monitor's, also when a later step of the
\* tick failed.
C34_AlertsVisible ==
  (TickOver /\ (fired.cpu \/ fired.ram))
  => /\ CountersPublished
     /\ Get(latest).tick = ticks
     /\ fired.cpu => Get(latest).cpu_hits >= CONSECUTIVE_LIMIT
     /\ fired.ram => Get(latest).ram_hits >= CONSECUTIVE_LIMIT

\* what does hold: a tick that ran to its end published the monitor's
\* counters, and with them every alert it fired
AlertsVisibleWhenTickCompletes ==
  (TickOver /\ latest # None /\ Get(latest).tick = ticks)
  => /\ CountersPublished
     /\ fired.cpu => Get(latest).cpu_hits >= CONSECUTIVE_LIMIT
     /\ fired.ram => Get(latest).ram_hits >= CONSECUTIVE_LIMIT

\* ------------------------------------------------------ daily health score
\* C35: the daily health score DailyStory.generate computes is always one
\* of 50, 60, 70, 80, 90, 100: each of the three penalties is applied at
\* most once, so the score is never negative and never below 50, and an
\* empty day scores 100.
C35_ScoreOneOfSix ==
  (Asked("generate_daily_story") /\ ~Get(result).failed)
  => /\ Get(result).summary.health_score \in {50, 60, 70, 80, 90, 100}
     /\ Get(result).samples = <<>> => Get(result).summary.health_score = 100

\* a day of several samples with RAM at its peak limit and more than 2000 MB
\* of traffic lost the average and the network penalty and scored 70
C35_Witness ==
  /\ Asked("generate_daily_story") /\ ~Get(result).failed
  /\ Len(Get(result).samples) >= 2
  /\ Get(result).summary.health_score = 70

\* ----------------------------------------------- the battery log's history
\* the step is a call of append_daily_entry
AppendStep == appends' # appends
\* the entry e is still in the log after the step
StillLogged(e) == \E j \in DOMAIN health_log' : health_log'[j] = e

\* C36: append_daily_entry for date d changes only the entry of date d:
\* every entry of the persisted log whose date differs from d is still
\* there with the same values after the call, also when the read of the
\* existing log failed or found it corrupt.
C36_OtherDatesKept ==
  [][AppendStep =>
       \A i \in DOMAIN health_log :
         health_log[i].date # Last(appends').date
           => StillLogged(health_log[i])]_vars

\* what does hold: a call either keeps every entry of the other dates or
\* leaves a log that holds nothing but the entry of the call
OtherDatesKeptOrLogReplaced ==
  [][AppendStep =>
       \/ \A i \in DOMAIN health_log :
            health_log[i].date # Last(appends').date
              => StillLogged(health_log[i])
       \/ health_log' = <<Last(appends')>>]_vars

\* ------------------------------------ get_stability_scores beside the worker
\* the keys that had a history with entries when the call began
KeysAtBegin == {k \in DOMAIN scan.began : scan.began[k] # <<>>}
\* the list is in the order of the sort: descending by the sort key
SortedByScoreKey(l) ==
  \A i, j \in 1..Len(l) : i < j => ~ScoreKeyLess(l[i], l[j])
\* the list has an entry for every key the call began with
HoldsKeysAtBegin(l) ==
  \A k \in KeysAtBegin : \E i \in 1..Len(l) : <<l[i].pid, l[i].name>> = k

\* C37: get_stability_scores called at any point of a running tick returns a
\* sorted list with one entry for every process key that had a non-empty
\* history when the call began; the worker adding a key or appending to or
\* evicting from a history during the call does not make it return a
\* partial or unsorted list.
C37_ScoresCompleteAndSorted ==
  scan.pc = "done"
  => /\ HoldsKeysAtBegin(scan.ret)
     /\ SortedByScoreKey(scan.ret)

\* what does hold: the call never raises to its caller, and unless the
\* dictionary changed size during the loop the list is complete and sorted
ScoresCompleteUnlessKeyAdded ==
  (scan.pc = "done" /\ ~scan.raised)
  => /\ HoldsKeysAtBegin(scan.ret)
     /\ SortedByScoreKey(scan.ret)

\* ------------------------------------- readers of a store that is rewritten
\* the samples that were persisted today before the append now in progress
\* began, or that are persisted now when none is in progress
PersistedSamples ==
  IF pc = "saving"
  THEN SubSeq(Get(pending).samples, 1, Len(Get(pending).samples) - 1)
  ELSE SamplesOn(daily_files, Today(clock))
\* the same for the battery log: the dates logged before the
\* append_daily_entry now in progress began
PersistedDates ==
  IF pc = "batlogging"
  THEN {appends[i].date : i \in 1..(Len(appends) - 1)}
  ELSE {health_log[i].date : i \in DOMAIN health_log}
\* the sequence l begins with the sequence p
BeginsWith(l, p) == Len(l) >= Len(p) /\ SubSeq(l, 1, Len(p)) = p
\* the user interface reads a store in this step
Reads(op) == query = None /\ query' # None /\ Get(query').op = op
\* the read of this step returns every sample and every logged date that
\* was persisted before the write in progress began
ReadSeesPersisted ==
  /\ Reads("load_today") =>
       BeginsWith(Get(result').samples, PersistedSamples)
  /\ Reads("generate_daily_story") =>
       BeginsWith(Get(result').samples, PersistedSamples)
  /\ Reads("predict") =>
       /\ ~Get(result').raised
       /\ PersistedDates \subseteq
            {Get(result').value.entries[i].date :
               i \in DOMAIN Get(result').value.entries}
\* C38: a reader of a persistence store that runs while the worker rewrites
\* it sees the content before the write or the content after it:
\* load_today and generate_daily_story return at least all samples
\* persisted before the append began, predict sees at least all log entries
\* persisted before the append began, never an empty or truncated store.
C38_ReaderSeesBeforeOrAfter == [][ReadSeesPersisted]_vars
\* what does hold: a read while neither file is open for writing returns
\* all that is persisted
WriteInProgress == pc \in {"saving", "batlogging"}
ReaderSeesStoreOutsideWrites == [][~WriteInProgress => ReadSeesPersisted]_vars
\* a read of today's samples falls between the truncation and the dump of a
\* file that held a sample
ReadOfTruncatedFile ==
  /\ pc = "saving" /\ Len(Get(pending).samples) > 1
  /\ query # None /\ Get(query).op \in {"load_today", "generate_daily_story"}
  /\ Get(result).samples = <<>>

\* ------------------------------------------------------- after stop() returns
\* C39: when stop() returns the worker thread has left its loop: after
\* stop() has returned no tick is in progress or starts, and the worker
\* writes no more to the snapshot, the histories, the battery health log or
\* the daily sample file.
C39_WorkerGoneWhenStopReturns ==
  [][stop_pc = "returned" =>
       /\ pc = "done"
       /\ ticks' = ticks
       /\ UNCHANGED WrittenByWorker]_vars
\* what does hold: after stop() has returned no tick starts any more, and a
\* worker that has left its loop writes nothing
NoTickStartsAfterStop ==
  [][/\ stop_pc = "returned" => ticks' = ticks
     /\ (stop_pc = "returned" /\ pc = "done") =>
          (pc' = "done" /\ UNCHANGED WrittenByWorker)]_vars
\* the join timed out in the middle of a tick, which then saved its sample
\* to the daily file after stop() had returned
SavedAfterStopReturned ==
  /\ stop_pc = "returned" /\ pc = "cleanup"
  /\ Len(SamplesOn(daily_files, Today(clock))) = ticks

=============================================================================
